---- MODULE Spec2Model ----
(***************************************************************************)
(* py_load_pmda: the incremental-load pipeline (Orchestrator.run and the   *)
(* older cli.run), the three backend adapters (PostgreSQL, Redshift,       *)
(* BigQuery) and the conditional download of the extractor.                *)
(*                                                                         *)
(* A database is a record                                                  *)
(*   exists : the tables that exist                                        *)
(*   rows   : the rows of every table                                      *)
(*   st     : the rows of the ingestion_state table                        *)
(* `committed` is the durable database, `working` is what the adapter's    *)
(* connection sees inside its open transaction.                            *)
(***************************************************************************)
EXTENDS Integers, Sequences, FiniteSets, TLC

VARIABLES
    backend,      \* config["database"]["type"]
    entry,        \* which pipeline driver runs: Orchestrator.run or cli.run
    load_mode,    \* self.mode or ds_config["load_mode"]
    primary_key,  \* table_config.get("primary_key"); {} when not configured
    multi_file,   \* self.dataset in ["package_inserts", "review_reports"]
    hdrs,         \* the validators the upstream server sends with a 200
    empty_tables, \* the tables whose transformed DataFrame has no rows
    upstream,     \* version of the upstream resource
    committed,    \* durable database
    working,      \* database as seen by the open transaction
    adapter,      \* self.adapter is set
    conn,         \* adapter.conn is set
    pc,           \* position of the run
    status,       \* local `status` of run
    new_state,    \* local `new_state` of run
    last_state,   \* local `last_state` of run
    raised,       \* an exception is propagating / has left the run
    tbl,          \* index of the table being loaded by _load_data
    stage,        \* the stage of the try block that raised ("" if none)
    calls,        \* adapter and collaborator calls of the current run
    op,           \* adapter operation performed by the latest step
    runs,         \* number of runs started (also the clock)
    faults,       \* number of injected failures
    hist,         \* summary of the previous run
    loadRuns,     \* per upstream version: runs that made a load call
    seenRuns,     \* per upstream version: runs that extracted it
    startRows,    \* committed rows of the target tables at run start
    apiArg,       \* arguments of the latest direct adapter call
    downloaded,   \* number of files in the extractor's downloaded_data
    fetch,        \* one _send_request / _send_post_request call
    cache,        \* contents of the files of cache_dir
    local_filepath, \* the path _download_file returned
    lastBody,     \* per URL: the body of its latest 200 response
    session,      \* the connection objects an adapter instance holds
    validator,    \* a DataValidator, the DataFrame it is given and its results
    multirun      \* a run of a multi-file dataset: search portal, extract(), loop

vars == <<backend, entry, load_mode, primary_key, multi_file, hdrs,
          empty_tables, upstream, committed, working,
          adapter, conn, pc, status, new_state, last_state, raised, tbl,
          stage, calls, op, runs, faults, hist, loadRuns, seenRuns,
          startRows, apiArg, downloaded, fetch, cache, local_filepath,
          lastBody, session, validator, multirun>>

----------------------------------------------------------------------------
(* Bounds *)
MaxVersion == 2
MaxRuns == 3
MaxFaults == 2
MaxKey == 3
MaxVal == 2
MaxOps == 1
MaxStateOps == 2
MaxRetries == 4
MaxBackoff == 2
MaxDownloads == 2
MaxConnOps == 3
MaxRules == 2
MaxRows == 2
MaxValidations == 2
MaxNames == 2
MaxMultiRuns == 2

----------------------------------------------------------------------------
(* Data *)
Backends == {"postgres", "redshift", "bigquery"}
Entries == {"orchestrator", "cli"}
Modes == {"append", "overwrite", "merge"}

\* the named batches a transformer returns, in dict order
Targets == <<"t1", "t2">>
TargetSet == {Targets[i] : i \in 1..Len(Targets)}
StagingOf == [t \in TargetSet |-> IF t = "t1" THEN "staging_t1" ELSE "staging_t2"]
AllTables == TargetSet \cup {StagingOf[t] : t \in TargetSet}

Cols == {"k", "v"}
Rows == [k : 1..MaxKey, v : 1..MaxVal]

Dataset == "approvals"
\* the table of schemas.INGESTION_STATE_SCHEMA
StateTable == "ingestion_state"
NULL == 0

\* a watermark dict; 0 stands for "key not in the dict". The single-file
\* extractors return the dict of validators {etag, last_modified}; the
\* multi-file extractors return {download_url: {etag, last_modified}}
\* (nested), or {} when nothing was downloaded.
States == [etag : 0..MaxVersion, last_modified : 0..MaxVersion, nested : BOOLEAN]
EmptyState == [etag |-> 0, last_modified |-> 0, nested |-> FALSE]

\* all_new_states[download_url] = self.new_state
Wrap(state) == [state EXCEPT !.nested = TRUE]
\* last_state.get(download_url, {})
Inner(state) == IF state.nested THEN [state EXCEPT !.nested = FALSE] ELSE EmptyState

EmptyDb == [exists |-> {}, rows |-> [t \in AllTables |-> {}], st |-> {}]

\* rows the parser and transformer produce from version ver of the resource
Batch(ver, t) ==
    IF t \in empty_tables THEN {}
    ELSE {[k |-> ver, v |-> ver], [k |-> ver + 1, v |-> ver]}

----------------------------------------------------------------------------
(* Small helpers on databases *)
\* CREATE OR REPLACE TABLE: the tables of ts exist and are empty
RecreateTables(db, ts) ==
    [db EXCEPT !.exists = @ \cup ts,
               !.rows = [t \in AllTables |-> IF t \in ts THEN {} ELSE @[t]]]

\* CREATE TABLE IF NOT EXISTS / get_table, NotFound: create_table
CreateTables(db, ts) == [db EXCEPT !.exists = @ \cup ts]
DropTable(db, t) == [db EXCEPT !.exists = @ \ {t}, !.rows[t] = {}]
\* cli init_db: connect, ensure_schema(schemas.INGESTION_STATE_SCHEMA), commit
InitDb(db) == CreateTables(db, {StateTable})
SetRows(db, t, rs) == [db EXCEPT !.rows[t] = rs]
Result(w, c, exc) == [w |-> w, c |-> c, exc |-> exc]

----------------------------------------------------------------------------
(* LoaderInterface.commit / rollback / execute_sql / disconnect            *)

\* PostgreSQLAdapter.commit and rollback are the wrappers around
\* self.conn.commit() / self.conn.rollback() of the earlier copy of the
\* adapter (src/py_load_pmda/adapters/postgres.py); execute_sql is declared by
\* the interface and used by the drivers, but the adapter has no body for it:
\* it is the non-committing wrapper the interface describes.
PostgresCommit(w, c) == Result(w, w, FALSE)
PostgresRollback(w, c) == Result(c, c, FALSE)
PostgresExecuteSqlDrop(w, c, t, ok) ==
    IF ok THEN Result(DropTable(w, t), c, FALSE) ELSE Result(w, c, TRUE)

RedshiftCommit(w, c) == Result(w, w, FALSE)
RedshiftRollback(w, c) == Result(c, c, FALSE)
RedshiftExecuteSqlDrop(w, c, t, ok) ==
    IF ok THEN Result(DropTable(w, t), c, FALSE) ELSE Result(w, c, TRUE)

\* BigQuery: every statement is durable at once; commit and rollback do nothing
BigQueryCommit(w, c) == Result(w, c, FALSE)
BigQueryRollback(w, c) == Result(w, c, FALSE)
BigQueryExecuteSqlDrop(w, c, t, ok) ==
    IF ok THEN Result(DropTable(w, t), DropTable(w, t), FALSE) ELSE Result(w, c, TRUE)

Commit(b, w, c) ==
    CASE b = "postgres" -> PostgresCommit(w, c)
      [] b = "redshift" -> RedshiftCommit(w, c)
      [] OTHER -> BigQueryCommit(w, c)

Rollback(b, w, c) ==
    CASE b = "postgres" -> PostgresRollback(w, c)
      [] b = "redshift" -> RedshiftRollback(w, c)
      [] OTHER -> BigQueryRollback(w, c)

ExecuteSqlDrop(b, w, c, t, ok) ==
    CASE b = "postgres" -> PostgresExecuteSqlDrop(w, c, t, ok)
      [] b = "redshift" -> RedshiftExecuteSqlDrop(w, c, t, ok)
      [] OTHER -> BigQueryExecuteSqlDrop(w, c, t, ok)

----------------------------------------------------------------------------
(* connect *)

ConnResult(s, exc) == [s |-> s, exc |-> exc]

\* a new connection object
Open(s) == s.opened + 1

\* if self.conn: return; self.conn = psycopg2.connect(...); psycopg2.Error
\* becomes ConnectionError
PostgresConnect(s, details, out) ==
    IF s.client # 0 THEN ConnResult(s, "")
    ELSE IF out = "ok"
    THEN ConnResult([s EXCEPT !.client = Open(s), !.opened = Open(s)], "")
    ELSE ConnResult(s, "ConnectionError")

\* if self.conn: return; the S3 settings are taken from the details, then
\* self.conn = redshift_connector.connect(...); redshift_connector.Error
\* becomes ConnectionError
RedshiftConnect(s, details, out) ==
    IF s.client # 0 THEN ConnResult(s, "")
    ELSE LET s1 == [s EXCEPT !.bucket = details.gcs_bucket]
         IN IF out = "ok"
            THEN ConnResult([s1 EXCEPT !.client = Open(s), !.opened = Open(s)], "")
            ELSE ConnResult(s1, "ConnectionError")

\* project_id, gcs_bucket_name are overwritten; ValueError when one is
\* missing; then self.client = bigquery.Client(...) and self.gcs_client =
\* storage.Client(...), whatever the adapter held; an exception of either
\* constructor is re-raised as it is
BigQueryConnect(s, details, out) ==
    LET s1 == [s EXCEPT !.project = details.project, !.bucket = details.gcs_bucket]
    IN IF ~details.project \/ ~details.gcs_bucket THEN ConnResult(s1, "ValueError")
       ELSE IF out = "client_fails" THEN ConnResult(s1, "Exception")
       ELSE LET s2 == [s1 EXCEPT !.client = Open(s1), !.opened = Open(s1)]
            IN IF out = "gcs_fails" THEN ConnResult(s2, "Exception")
               ELSE ConnResult([s2 EXCEPT !.gcs = Open(s2), !.opened = Open(s2)], "")

ConnectAdapter(b, s, details, out) ==
    CASE b = "postgres" -> PostgresConnect(s, details, out)
      [] b = "redshift" -> RedshiftConnect(s, details, out)
      [] OTHER -> BigQueryConnect(s, details, out)

\* `if not self.conn` / `if not self.client` of the adapter methods
Connected(s) == s.client # 0

----------------------------------------------------------------------------
(* ensure_schema *)

\* CREATE SCHEMA / CREATE TABLE IF NOT EXISTS, then conn.commit();
\* on a psycopg2 error: conn.rollback() and re-raise
PostgresEnsureSchema(w, c, ts, ok) ==
    IF ok THEN Result(CreateTables(w, ts), CreateTables(w, ts), FALSE)
    ELSE Result(c, c, TRUE)

\* the same statements without the commit
RedshiftEnsureSchema(w, c, ts, ok) ==
    IF ok THEN Result(CreateTables(w, ts), c, FALSE)
    ELSE Result(c, c, TRUE)

\* reads schema_definition["name"]; a definition without it (every definition
\* the drivers pass carries "schema_name" instead) raises ValueError; creates
\* the run-state table next to the declared tables
BigQueryEnsureSchema(w, c, ts, hasName, ok) ==
    IF ~hasName THEN Result(w, c, TRUE)
    ELSE IF ok THEN Result(CreateTables(w, ts \cup {StateTable}),
                           CreateTables(w, ts \cup {StateTable}), FALSE)
    ELSE Result(w, c, TRUE)

EnsureSchema(b, w, c, ts, hasName, ok) ==
    CASE b = "postgres" -> PostgresEnsureSchema(w, c, ts, ok)
      [] b = "redshift" -> RedshiftEnsureSchema(w, c, ts, ok)
      [] OTHER -> BigQueryEnsureSchema(w, c, ts, hasName, ok)

----------------------------------------------------------------------------
(* bulk_load *)

\* empty data: return; bad mode: ValueError; overwrite: TRUNCATE; COPY;
\* conn.commit(); on error conn.rollback() and re-raise
PostgresBulkLoad(w, c, data, t, mode, ok) ==
    IF data = {} THEN Result(w, c, FALSE)
    ELSE IF mode \notin {"append", "overwrite"} THEN Result(w, c, TRUE)
    ELSE IF ok /\ t \in w.exists
         THEN LET base == IF mode = "overwrite" THEN {} ELSE w.rows[t]
                  w2 == SetRows(w, t, base \cup data)
              IN Result(w2, w2, FALSE)
         ELSE Result(c, c, TRUE)

\* the same through S3 and COPY, without the commit
RedshiftBulkLoad(w, c, data, t, mode, ok) ==
    IF data = {} THEN Result(w, c, FALSE)
    ELSE IF mode \notin {"append", "overwrite"} THEN Result(w, c, TRUE)
    ELSE IF ok /\ t \in w.exists
         THEN LET base == IF mode = "overwrite" THEN {} ELSE w.rows[t]
              IN Result(SetRows(w, t, base \cup data), c, FALSE)
         ELSE Result(c, c, TRUE)

\* overwrite: delete_table and create_table first; then a load job with
\* WRITE_APPEND for append and WRITE_EMPTY for any other mode
BigQueryBulkLoad(w, c, data, t, mode, ok) ==
    LET w1 == IF mode = "overwrite" THEN SetRows(CreateTables(w, {t}), t, {}) ELSE w
    IN IF ok /\ (mode = "append" \/ w1.rows[t] = {})
       THEN LET w2 == SetRows(CreateTables(w1, {t}), t, w1.rows[t] \cup data)
            IN Result(w2, w2, FALSE)
       ELSE Result(w1, w1, TRUE)

BulkLoad(b, w, c, data, t, mode, ok) ==
    CASE b = "postgres" -> PostgresBulkLoad(w, c, data, t, mode, ok)
      [] b = "redshift" -> RedshiftBulkLoad(w, c, data, t, mode, ok)
      [] OTHER -> BigQueryBulkLoad(w, c, data, t, mode, ok)

----------------------------------------------------------------------------
(* execute_merge *)

Key(r, pks) == [col \in pks |-> r[col]]
Matches(t, s, pks) == Key(t, pks) = Key(s, pks)

\* the row a matched target row t becomes when the columns upd are set from
\* the staging row s
UpdateRow(t, s, upd) ==
    [k |-> IF "k" \in upd THEN s.k ELSE t.k, v |-> IF "v" \in upd THEN s.v ELSE t.v]

\* the statement of one upsert: matched target rows get the columns upd of
\* their staging row, staging rows without a match are inserted
Upsert(T, S, pks, upd) ==
    {UpdateRow(p[1], p[2], upd) : p \in {q \in T \X S : Matches(q[1], q[2], pks)}}
      \cup {t \in T : \A s \in S : ~Matches(t, s, pks)}
      \cup {s \in S : \A t \in T : ~Matches(t, s, pks)}

\* columns of the staging table according to information_schema
TableCols(w, stg) == IF stg \in w.exists THEN Cols ELSE {}

PgDoNothingMerge(w, c, stg, tgt, pks, ok) ==
    IF pks = {} THEN Result(w, c, TRUE)
    ELSE IF TableCols(w, stg) = {} THEN Result(w, c, FALSE)
    ELSE IF TableCols(w, stg) \ pks = {} THEN Result(w, c, FALSE)
    ELSE IF ok /\ tgt \in w.exists
         THEN LET w2 == SetRows(w, tgt, Upsert(w.rows[tgt], w.rows[stg], pks, {}))
              IN Result(w2, w2, FALSE)
         ELSE Result(c, c, TRUE)

\* INSERT INTO target SELECT FROM staging ON CONFLICT (pks) DO UPDATE SET
\* update_cols = EXCLUDED.update_cols; then conn.commit()
PostgresExecuteMerge(w, c, stg, tgt, pks, ok) ==
    IF pks = {} THEN Result(w, c, TRUE)
    ELSE IF TableCols(w, stg) = {} THEN Result(w, c, FALSE)
    ELSE IF TableCols(w, stg) \ pks = {} THEN Result(w, c, FALSE)
    ELSE IF ok /\ tgt \in w.exists
         THEN LET upd == TableCols(w, stg) \ pks
                  w2 == SetRows(w, tgt, Upsert(w.rows[tgt], w.rows[stg], pks, upd))
              IN Result(w2, w2, FALSE)
         ELSE Result(c, c, TRUE)

\* MERGE INTO target USING staging ON pks WHEN MATCHED THEN UPDATE SET
\* update_cols WHEN NOT MATCHED THEN INSERT; an empty update clause is a
\* statement Redshift rejects; no commit
RedshiftExecuteMerge(w, c, stg, tgt, pks, ok) ==
    IF pks = {} THEN Result(w, c, TRUE)
    ELSE IF TableCols(w, stg) = {} THEN Result(w, c, FALSE)
    ELSE IF ok /\ tgt \in w.exists /\ TableCols(w, stg) \ pks # {}
         THEN LET upd == TableCols(w, stg) \ pks
              IN Result(SetRows(w, tgt, Upsert(w.rows[tgt], w.rows[stg], pks, upd)), c, FALSE)
         ELSE Result(c, c, TRUE)

\* get_table(staging) raises NotFound; MERGE ... UPDATE SET every column;
\* an empty ON clause is a statement BigQuery rejects
BigQueryExecuteMerge(w, c, stg, tgt, pks, ok) ==
    IF stg \notin w.exists THEN Result(w, c, TRUE)
    ELSE IF ok /\ tgt \in w.exists /\ pks # {}
         THEN LET w2 == SetRows(w, tgt, Upsert(w.rows[tgt], w.rows[stg], pks, Cols))
              IN Result(w2, w2, FALSE)
         ELSE Result(w, c, TRUE)

ExecuteMerge(b, w, c, stg, tgt, pks, ok) ==
    CASE b = "postgres" -> PostgresExecuteMerge(w, c, stg, tgt, pks, ok)
      [] b = "redshift" -> RedshiftExecuteMerge(w, c, stg, tgt, pks, ok)
      [] OTHER -> BigQueryExecuteMerge(w, c, stg, tgt, pks, ok)

----------------------------------------------------------------------------
(* get_latest_state / update_state *)

\* json.dumps(state): the text of the watermark dict, its keys in insertion
\* order (etag, then last_modified); a key that is not in the dict is not in
\* the text
DumpsFlat(state) ==
    (IF state.etag # 0 THEN <<<<"etag", state.etag>>>> ELSE <<>>)
    \o (IF state.last_modified # 0
        THEN <<<<"last_modified", state.last_modified>>>> ELSE <<>>)
Dumps(state) ==
    IF state.nested THEN <<<<"download_url", DumpsFlat(state)>>>> ELSE DumpsFlat(state)

\* json.loads(text) / the dict the driver builds from a JSONB value
Member(text, key) == \E i \in 1..Len(text) : text[i][1] = key
Lookup(text, key) ==
    IF Member(text, key)
    THEN text[CHOOSE i \in 1..Len(text) : text[i][1] = key][2]
    ELSE 0
LoadsFlat(text) ==
    [etag |-> Lookup(text, "etag"), last_modified |-> Lookup(text, "last_modified"),
     nested |-> FALSE]
Loads(text) ==
    IF Member(text, "download_url")
    THEN Wrap(LoadsFlat(Lookup(text, "download_url")))
    ELSE LoadsFlat(text)

StateRowsOf(db, id) == {r \in db.st : r.id = id}

StateRow(id, now, succ, st, wm) ==
    [id |-> id, last_run |-> now, last_succ |-> succ, status |-> st, wm |-> wm]

\* SELECT last_watermark ... fetchone(); a missing row or a falsy watermark
\* gives {}
PostgresGetLatestState(w, id) ==
    IF StateRowsOf(w, id) = {} THEN EmptyState
    ELSE LET result == Loads((CHOOSE r \in StateRowsOf(w, id) : TRUE).wm)
         IN IF result # EmptyState THEN result ELSE EmptyState

RedshiftGetLatestState(w, id) ==
    IF StateRowsOf(w, id) = {} THEN EmptyState
    ELSE Loads((CHOOSE r \in StateRowsOf(w, id) : TRUE).wm)

\* SELECT * ... LIMIT 1: the whole row as a dict, its watermark parsed
BigQueryGetLatestState(w, id) ==
    IF StateRowsOf(w, id) = {} THEN EmptyState
    ELSE LET r == CHOOSE x \in StateRowsOf(w, id) : TRUE
         IN [dataset_id |-> r.id, last_run_ts_utc |-> r.last_run,
             last_successful_run_ts_utc |-> r.last_succ, status |-> r.status,
             last_watermark |-> Loads(r.wm)]

GetLatestState(b, w, id) ==
    CASE b = "postgres" -> PostgresGetLatestState(w, id)
      [] b = "redshift" -> RedshiftGetLatestState(w, id)
      [] OTHER -> BigQueryGetLatestState(w, id)

\* update_state: a statement on a missing ingestion_state table raises.
\* INSERT ... ON CONFLICT (dataset_id) DO UPDATE SET ... with
\* last_successful_run_ts_utc = CASE WHEN EXCLUDED.status = 'SUCCESS' THEN
\* EXCLUDED... ELSE the old value; then conn.commit()
PostgresUpdateState(w, c, id, state, st, now, ok) ==
    IF ~ok \/ StateTable \notin w.exists THEN Result(c, c, TRUE)
    ELSE LET old == StateRowsOf(w, id)
             succ == IF st = "SUCCESS" THEN now
                     ELSE IF old = {} THEN NULL
                     ELSE (CHOOSE r \in old : TRUE).last_succ
             w2 == [w EXCEPT !.st = (@ \ old) \cup {StateRow(id, now, succ, st, Dumps(state))}]
         IN Result(w2, w2, FALSE)

\* update_state without its DELETE statement
RedshiftInsertOnly(w, c, id, state, st, now, ok) ==
    IF ~ok THEN Result(c, c, TRUE)
    ELSE Result([w EXCEPT !.st = @ \cup {StateRow(id, now,
                                                  IF st = "SUCCESS" THEN now ELSE NULL,
                                                  st, Dumps(state))}],
                c, FALSE)

\* DELETE FROM ingestion_state WHERE dataset_id = id; INSERT a new row whose
\* last_successful_run_ts_utc is now for SUCCESS and NULL otherwise; no commit
RedshiftUpdateState(w, c, id, state, st, now, ok) ==
    IF ~ok \/ StateTable \notin w.exists THEN Result(c, c, TRUE)
    ELSE LET old == StateRowsOf(w, id)
             succ == IF st = "SUCCESS" THEN now ELSE NULL
         IN Result([w EXCEPT !.st = (@ \ old) \cup {StateRow(id, now, succ, st, Dumps(state))}],
                   c, FALSE)

\* MERGE on dataset_id; the watermark written is state.get("last_watermark",
\* {}), which is {} for the watermark dicts the extractors produce
BigQueryUpdateState(w, c, id, state, st, now, ok) ==
    IF ~ok \/ StateTable \notin w.exists THEN Result(w, c, TRUE)
    ELSE LET old == StateRowsOf(w, id)
             upd(r) == StateRow(id, now, IF st = "SUCCESS" THEN now ELSE r.last_succ,
                                st, Dumps(EmptyState))
             new == IF old = {}
                    THEN {StateRow(id, now, IF st = "SUCCESS" THEN now ELSE NULL,
                                   st, Dumps(EmptyState))}
                    ELSE {upd(r) : r \in old}
             w2 == [w EXCEPT !.st = (@ \ old) \cup new]
         IN Result(w2, w2, FALSE)

UpdateState(b, w, c, id, state, st, now, ok) ==
    CASE b = "postgres" -> PostgresUpdateState(w, c, id, state, st, now, ok)
      [] b = "redshift" -> RedshiftUpdateState(w, c, id, state, st, now, ok)
      [] OTHER -> BigQueryUpdateState(w, c, id, state, st, now, ok)

----------------------------------------------------------------------------
(* BaseExtractor._download_file against the upstream server *)

\* a response from which only the ETag header is read
EtagOnly(h, ver) ==
    [etag |-> IF "etag" \in h THEN ver ELSE 0, last_modified |-> 0, nested |-> FALSE]

\* the validators of version ver of the resource
Validators(h, ver) ==
    [etag |-> IF "etag" \in h THEN ver ELSE 0,
     last_modified |-> IF "last_modified" \in h THEN ver ELSE 0,
     nested |-> FALSE]

\* the server answers a conditional request with 304 when the validators it
\* was sent are those of its current version (If-None-Match first)
NotModified(h, ver, last) ==
    IF last.etag # 0 THEN "etag" \in h /\ last.etag = ver
    ELSE last.last_modified # 0 /\ "last_modified" \in h /\ last.last_modified = ver

\* a download whose new_state always takes the validators of the response
DownloadFresh(h, ver, last) == Validators(h, ver)

\* new_state after the download: on 304 the last state (when non-empty),
\* on 200 the validators of the response
DownloadFile(h, ver, last) ==
    IF NotModified(h, ver, last)
    THEN (IF last # EmptyState THEN last ELSE EmptyState)
    ELSE Validators(h, ver)

\* the delta check of the drivers
UnchangedAlways(ns, ls) == ns = ls
Unchanged(ns, ls) == ns = ls /\ ls # EmptyState

----------------------------------------------------------------------------
(* The run: Orchestrator.run and cli.run *)

\* a URL is the sequence of its path segments; url.split("/")[-1]
Urls == {<<"content", "list.xlsx">>, <<"archive", "list.xlsx">>,
         <<"files", "jader.zip">>}
LocalFilename(url) == url[Len(url)]
Filenames == {LocalFilename(u) : u \in Urls}

\* the content of a file: the body the server sends for version ver of url;
\* NoBody for a file that does not exist, OldBody for a file that was in
\* cache_dir before the extractor was created
Body(url, ver) == [url |-> url, ver |-> ver]
NoBody == [url |-> <<>>, ver |-> 0]
OldBody == [url |-> <<>>, ver |-> 1]
NoCache == [f \in Filenames |-> NoBody]

\* self.conn / self.client and self.gcs_client (0 for None, otherwise the
\* number of the connection object), self.project_id and self.gcs_bucket_name
\* being set, and the number of connection objects created so far
NoSession == [client |-> 0, gcs |-> 0, project |-> FALSE, bucket |-> FALSE,
              opened |-> 0]

\* arguments and pre-state of a direct call
NoArg == [pks |-> {}, status |-> "", exc |-> FALSE, t |-> "", mode |-> "",
          data |-> {}, ts |-> {}, pre |-> EmptyDb, preCommitted |-> EmptyDb,
          url |-> <<>>, cache |-> NoCache, session |-> NoSession, error |-> ""]
NoFetch == [method |-> "", retries |-> 0, backoff_factor |-> 0, attempt |-> 0,
            delays |-> 0, outcomes |-> <<>>, waits |-> <<>>, result |-> "",
            events |-> <<>>, responses |-> <<>>]
\* DataValidator(rules) before its first validate: self.errors = []
NoValidator == [none |-> FALSE, rules |-> <<>>, df |-> <<>>, errors |-> <<>>,
                result |-> TRUE, calls |-> 0, prevErrors |-> <<>>,
                prevResult |-> TRUE]
\* a dict of per-URL watermarks: its keys and the value at each key
NoStates == [keys |-> {}, at |-> [u \in Urls |-> EmptyState]]
\* the extractor before extract(): drug_names, the links the search portal
\* shows for a name, the version of every file; downloaded_data and
\* all_new_states of the latest extract(), the URLs answered with 200, the
\* the files in cache_dir, and the files the run loaded
NoMulti == [kind |-> "", drug_names |-> <<>>, site |-> <<>>,
            ver |-> [u \in Urls |-> 1], stored |-> NoStates,
            last_state |-> NoStates, downloaded_data |-> <<>>,
            all_new_states |-> NoStates, fresh |-> {}, files |-> {},
            loaded |-> <<>>, i |-> 0]
NoHist == [prevOk |-> FALSE, prevVer |-> 0, prevRun |-> 0, curVer |-> 0]

ConfigInit ==
    /\ backend \in Backends
    /\ entry \in Entries
    /\ load_mode \in Modes
    /\ multi_file \in BOOLEAN
    \* the primary key is read in merge mode only
    /\ primary_key \in (IF load_mode = "merge" THEN {{}, {"k"}} ELSE {{"k"}})
    /\ hdrs \in SUBSET {"etag", "last_modified"}
    /\ empty_tables \in {{}, {"t1"}, {"t1", "t2"}}

RunVarsInit ==
    /\ upstream = 1
    /\ adapter = FALSE
    /\ conn = FALSE
    /\ status = "FAILED"
    /\ new_state = EmptyState
    /\ last_state = EmptyState
    /\ raised = FALSE
    /\ tbl = 0
    /\ stage = ""
    /\ calls = <<>>
    /\ op = "none"
    /\ runs = 0
    /\ faults = 0
    /\ hist = NoHist
    /\ loadRuns = [ver \in 1..MaxVersion |-> 0]
    /\ seenRuns = [ver \in 1..MaxVersion |-> 0]
    /\ startRows = EmptyDb.rows
    /\ apiArg = NoArg
    /\ downloaded = 0
    /\ local_filepath = ""

ExtrInit ==
    /\ fetch = NoFetch
    /\ cache = NoCache
    /\ lastBody = [u \in Urls |-> NoBody]
    /\ session = NoSession
    /\ validator = NoValidator
    /\ multirun = NoMulti

\* the database before the first run: `init-db` may or may not have been run
Init ==
    /\ ConfigInit
    /\ RunVarsInit
    /\ ExtrInit
    /\ committed \in {EmptyDb, InitDb(EmptyDb)}
    /\ working = committed
    /\ pc = "idle"

config == <<backend, entry, load_mode, primary_key, multi_file, hdrs,
            empty_tables>>
ghost == <<hist, loadRuns, seenRuns, startRows, apiArg>>
extr == <<downloaded, fetch, cache, local_filepath, lastBody, session,
          validator, multirun>>

\* the outcomes a call can have: it may fail while faults remain
Outcomes == IF faults < MaxFaults THEN {TRUE, FALSE} ELSE {TRUE}
Fault(ok) == faults' = faults + (IF ok THEN 0 ELSE 1)
Apply(r) == working' = r.w /\ committed' = r.c
Log(c) == calls' = Append(calls, c)
Called(c) == \E i \in 1..Len(calls) : calls[i] = c
LoadCalled == Called("bulk_load") \/ Called("execute_merge")
Now == runs

\* an exception raised inside the try block
Raise(s) == pc' = "except" /\ stage' = s

\* the upstream publishes a new version between two runs
Publish ==
    /\ pc = "idle"
    /\ upstream < MaxVersion
    /\ upstream' = upstream + 1
    /\ op' = "none"
    /\ UNCHANGED <<config, committed, working, adapter, conn, pc, status,
                   new_state, last_state, raised, tbl, stage, calls, runs,
                   faults, ghost, extr>>

\* status = "FAILED"; new_state = {}; adapter = None
StartRun ==
    /\ pc = "idle"
    /\ runs < MaxRuns
    /\ runs' = runs + 1
    /\ status' = "FAILED"
    /\ new_state' = EmptyState
    /\ last_state' = EmptyState
    /\ adapter' = FALSE
    /\ conn' = FALSE
    /\ raised' = FALSE
    /\ stage' = ""
    /\ tbl' = 0
    /\ calls' = <<>>
    /\ op' = "none"
    /\ hist' = [prevOk |-> runs > 0 /\ ~raised,
                prevVer |-> IF runs > 0 THEN hist.curVer ELSE 0,
                prevRun |-> runs,
                curVer |-> upstream]
    /\ startRows' = committed.rows
    /\ pc' = "connect"
    /\ downloaded' = 0
    /\ UNCHANGED <<config, upstream, committed, working, faults, loadRuns,
                   seenRuns, apiArg, fetch, cache, local_filepath, lastBody,
                   session, validator, multirun>>

\* self.adapter = get_db_adapter(...); self.adapter.connect(db_config)
\* (for "bigquery" the factory names BigQueryLoader; the class the module
\* defines, BigQueryAdapter, is the adapter modelled)
Connect ==
    /\ pc = "connect"
    /\ adapter' = TRUE
    /\ \E ok \in Outcomes :
         /\ Fault(ok)
         /\ conn' = ok
         /\ IF ok THEN pc' = "ensure_schema" /\ stage' = stage
                  ELSE Raise("connect")
    /\ working' = committed
    /\ Log("connect")
    /\ op' = "connect"
    /\ UNCHANGED <<config, upstream, committed, status, new_state, last_state,
                   raised, tbl, runs, ghost, extr>>

\* self.adapter.ensure_schema(target_schema_def)
EnsureTargetSchema ==
    /\ pc = "ensure_schema"
    /\ \E ok \in Outcomes :
         LET r == EnsureSchema(backend, working, committed, TargetSet, FALSE, ok)
         IN /\ Fault(ok)
            /\ Apply(r)
            /\ IF r.exc THEN Raise("ensure_schema")
                        ELSE pc' = "get_state" /\ stage' = stage
    /\ Log("ensure_schema")
    /\ op' = "ensure_schema"
    /\ UNCHANGED <<config, upstream, adapter, conn, status, new_state,
                   last_state, raised, tbl, runs, ghost, extr>>

\* last_state = self.adapter.get_latest_state(self.dataset, schema=state_schema).
\* The SELECT of PostgreSQLAdapter and RedshiftAdapter raises when the
\* ingestion_state table does not exist; BigQueryAdapter catches NotFound and
\* returns {}.
GetState ==
    /\ pc = "get_state"
    /\ IF StateTable \notin working.exists /\ backend # "bigquery"
       THEN Raise("get_state") /\ last_state' = last_state
       ELSE /\ last_state' = GetLatestState(backend, working, Dataset)
            /\ pc' = "extract" /\ stage' = stage
    /\ Log("get_latest_state")
    /\ op' = "get_latest_state"
    /\ UNCHANGED <<config, upstream, committed, working, adapter, conn, status,
                   new_state, raised, tbl, runs, faults, ghost, extr>>

\* the watermark extract() returns when its requests succeed
ExtractedState(multi, h, ver, last) ==
    IF multi THEN Wrap(DownloadFile(h, ver, Inner(last)))
    ELSE DownloadFile(h, ver, last)

\* extracted_output = extractor_instance.extract(**extract_args);
\* new_state = extracted_output[-1]. A request whose retries are exhausted
\* raises requests.RequestException: the single-file extractors let it
\* propagate, the multi-file extractors log it and `continue`, returning
\* ([], {}). A multi-file extractor also returns ([], {}) when the search
\* results hold no download link for the drug names (found = FALSE).
Extract ==
    /\ pc = "extract"
    /\ \E ok \in Outcomes, found \in (IF multi_file THEN BOOLEAN ELSE {TRUE}) :
         /\ Fault(ok)
         /\ IF ok /\ found
            THEN /\ new_state' = ExtractedState(multi_file, hdrs, upstream, last_state)
                 /\ seenRuns' = [seenRuns EXCEPT ![upstream] = @ + 1]
                 /\ downloaded' = 1
                 /\ pc' = "delta" /\ stage' = stage
                 /\ calls' = Append(calls, "extract")
            ELSE IF ok
            THEN /\ new_state' = EmptyState
                 /\ pc' = "delta" /\ stage' = stage
                 /\ calls' = Append(calls, "extract")
                 /\ UNCHANGED <<seenRuns, downloaded>>
            ELSE /\ calls' = calls \o <<"extract", "RequestException">>
                 /\ IF multi_file
                    THEN /\ new_state' = EmptyState
                         /\ pc' = "delta" /\ stage' = stage
                         /\ UNCHANGED <<seenRuns, downloaded>>
                    ELSE /\ Raise("extract")
                         /\ UNCHANGED <<new_state, seenRuns, downloaded>>
    /\ op' = "none"
    /\ UNCHANGED <<config, upstream, committed, working, adapter, conn, status,
                   last_state, raised, tbl, runs, hist, loadRuns, startRows,
                   apiArg, fetch, cache, local_filepath, lastBody, session,
                   validator, multirun>>

\* if new_state == last_state and last_state: status = "SUCCESS" ...
DeltaCheck ==
    /\ pc = "delta"
    /\ IF Unchanged(new_state, last_state)
       THEN status' = "SUCCESS" /\ pc' = "sc_update"
       ELSE status' = status /\ pc' = "parse"
    /\ op' = "none"
    /\ UNCHANGED <<config, upstream, committed, working, adapter, conn,
                   new_state, last_state, raised, tbl, stage, calls, runs,
                   faults, ghost, extr>>

\* short circuit: self.adapter.update_state(..., state=new_state, status=status)
ShortCircuitUpdate ==
    /\ pc = "sc_update"
    /\ \E ok \in Outcomes :
         LET r == UpdateState(backend, working, committed, Dataset, new_state,
                              status, Now, ok)
         IN /\ Fault(ok)
            /\ Apply(r)
            /\ IF r.exc THEN Raise("sc_update")
                        ELSE pc' = "sc_commit" /\ stage' = stage
    /\ Log("update_state:SUCCESS")
    /\ op' = "update_state"
    /\ UNCHANGED <<config, upstream, adapter, conn, status, new_state,
                   last_state, raised, tbl, runs, ghost, extr>>

\* short circuit: self.adapter.commit(); return
ShortCircuitCommit ==
    /\ pc = "sc_commit"
    /\ Apply(Commit(backend, working, committed))
    /\ pc' = "finally"
    /\ Log("commit")
    /\ op' = "commit"
    /\ UNCHANGED <<config, upstream, adapter, conn, status, new_state,
                   last_state, raised, tbl, stage, runs, faults, ghost, extr>>

----------------------------------------------------------------------------
(* Parse, transform, _load_data and _load_table *)

PrimaryKeys == primary_key
CurTable == Targets[tbl]
CurBatch == Batch(upstream, CurTable)

\* Orchestrator._load_table validates first; cli.run has no validation
FirstLoadPc == IF entry = "orchestrator" THEN "validate"
               ELSE IF load_mode = "merge" THEN "pk_check" ELSE "bulk"
\* a _load_table that bulk-loads the target in every mode
LoadPcDirect == "bulk"
\* after validation: `if load_mode == "merge"` ... else bulk_load
LoadPc == IF load_mode = "merge" THEN "pk_check" ELSE "bulk"

NumTables == IF multi_file THEN 1 ELSE Len(Targets)

\* a loop that loads every DataFrame
SkipsNever(driver, multi, t) == FALSE

\* `if df.empty: ... continue` (`return` for a single DataFrame); the loop of
\* cli.run over the downloaded files has no such test
Skips(driver, multi, t) ==
    Batch(upstream, t) = {} /\ ~(driver = "cli" /\ multi)

\* the next table after the i-th that is not skipped; 0 when there is none
NextTable(i) ==
    LET rest == {j \in (i + 1)..NumTables : ~Skips(entry, multi_file, Targets[j])}
    IN IF rest = {} THEN 0 ELSE CHOOSE j \in rest : \A m \in rest : j <= m

\* the loop over the named batches; after the last one status = "SUCCESS"
TableDone ==
    IF NextTable(tbl) # 0
    THEN tbl' = NextTable(tbl) /\ pc' = FirstLoadPc /\ status' = status
    ELSE tbl' = tbl /\ pc' = "finally" /\ status' = "SUCCESS"

CountLoadRun ==
    loadRuns' = IF LoadCalled THEN loadRuns
                ELSE [loadRuns EXCEPT ![upstream] = @ + 1]

\* for file_path, source_url in downloaded_data: ... with an empty
\* downloaded_data; status = "SUCCESS"
NoFiles ==
    /\ pc = "parse"
    /\ downloaded = 0
    /\ status' = "SUCCESS"
    /\ pc' = "finally"
    /\ op' = "none"
    /\ UNCHANGED <<config, upstream, committed, working, adapter, conn,
                   new_state, last_state, raised, tbl, stage, calls, runs,
                   faults, ghost, extr>>

\* parser_instance.parse(...); transformer_instance.transform(...)
ParseTransform ==
    /\ pc = "parse"
    /\ downloaded > 0
    /\ \E ok \in Outcomes :
         /\ Fault(ok)
         /\ IF ok THEN TableDone /\ stage' = stage
                  ELSE Raise("parse") /\ tbl' = tbl /\ status' = status
    /\ Log("parse")
    /\ op' = "none"
    /\ UNCHANGED <<config, upstream, committed, working, adapter, conn,
                   new_state, last_state, raised, runs, ghost, extr>>

\* validator.validate(df); a failed validation raises ValueError
Validate ==
    /\ pc = "validate"
    /\ \E ok \in Outcomes :
         /\ Fault(ok)
         /\ IF ok THEN pc' = LoadPc /\ stage' = stage
                  ELSE Raise("validate")
    /\ Log("validate")
    /\ op' = "none"
    /\ UNCHANGED <<config, upstream, committed, working, adapter, conn, status,
                   new_state, last_state, raised, tbl, runs, ghost, extr>>

\* merge: primary_keys = table_config.get("primary_key");
\* if not primary_keys: raise ValueError(...)
CheckPrimaryKey ==
    /\ pc = "pk_check"
    /\ IF PrimaryKeys = {} THEN Raise("primary_key")
                           ELSE pc' = "stg_ensure" /\ stage' = stage
    /\ op' = "none"
    /\ UNCHANGED <<config, upstream, committed, working, adapter, conn, status,
                   new_state, last_state, raised, tbl, calls, runs, faults,
                   ghost, extr>>

\* append / overwrite: self.adapter.bulk_load(df, table_name, mode=load_mode)
BulkLoadTarget ==
    /\ pc = "bulk"
    /\ \E ok \in Outcomes :
         LET r == BulkLoad(backend, working, committed, CurBatch, CurTable,
                           load_mode, ok)
         IN /\ Fault(ok)
            /\ Apply(r)
            /\ IF r.exc THEN Raise("bulk_load") /\ tbl' = tbl /\ status' = status
                        ELSE TableDone /\ stage' = stage
    /\ CountLoadRun
    /\ Log("bulk_load")
    /\ op' = "bulk_load"
    /\ UNCHANGED <<config, upstream, adapter, conn, new_state, last_state,
                   raised, runs, hist, seenRuns, startRows, apiArg, extr>>

\* merge: self.adapter.ensure_schema(staging_schema)
EnsureStaging ==
    /\ pc = "stg_ensure"
    /\ \E ok \in Outcomes :
         LET r == EnsureSchema(backend, working, committed, {StagingOf[CurTable]},
                               FALSE, ok)
         IN /\ Fault(ok)
            /\ Apply(r)
            /\ IF r.exc THEN pc' = "drop" /\ stage' = "ensure_staging"
                        ELSE pc' = "stg_load" /\ stage' = stage
    /\ Log("ensure_schema")
    /\ op' = "ensure_schema"
    /\ UNCHANGED <<config, upstream, adapter, conn, status, new_state,
                   last_state, raised, tbl, runs, ghost, extr>>

\* merge: self.adapter.bulk_load(df, staging_table_name, mode="overwrite")
BulkLoadStaging ==
    /\ pc = "stg_load"
    /\ \E ok \in Outcomes :
         LET r == BulkLoad(backend, working, committed, CurBatch,
                           StagingOf[CurTable], "overwrite", ok)
         IN /\ Fault(ok)
            /\ Apply(r)
            /\ IF r.exc THEN pc' = "drop" /\ stage' = "bulk_load"
                        ELSE pc' = "merge" /\ stage' = stage
    /\ CountLoadRun
    /\ Log("bulk_load")
    /\ op' = "bulk_load"
    /\ UNCHANGED <<config, upstream, adapter, conn, status, new_state,
                   last_state, raised, tbl, runs, hist, seenRuns, startRows,
                   apiArg, extr>>

\* merge: self.adapter.execute_merge(staging, target, primary_keys)
MergeStaging ==
    /\ pc = "merge"
    /\ \E ok \in Outcomes :
         LET r == ExecuteMerge(backend, working, committed, StagingOf[CurTable],
                               CurTable, PrimaryKeys, ok)
         IN /\ Fault(ok)
            /\ Apply(r)
            /\ pc' = "drop"
            /\ stage' = IF r.exc THEN "execute_merge" ELSE stage
    /\ CountLoadRun
    /\ Log("execute_merge")
    /\ op' = "execute_merge"
    /\ UNCHANGED <<config, upstream, adapter, conn, status, new_state,
                   last_state, raised, tbl, runs, hist, seenRuns, startRows,
                   apiArg, extr>>

\* finally: self.adapter.execute_sql("DROP TABLE IF EXISTS staging_<table>")
DropStaging ==
    /\ pc = "drop"
    /\ \E ok \in Outcomes :
         LET r == ExecuteSqlDrop(backend, working, committed, StagingOf[CurTable], ok)
         IN /\ Fault(ok)
            /\ Apply(r)
            /\ IF r.exc THEN Raise("drop_staging") /\ tbl' = tbl /\ status' = status
               ELSE IF stage # "" THEN pc' = "except" /\ stage' = stage
                                       /\ tbl' = tbl /\ status' = status
               ELSE TableDone /\ stage' = stage
    /\ Log("drop_staging")
    /\ op' = "execute_sql"
    /\ UNCHANGED <<config, upstream, adapter, conn, new_state, last_state,
                   raised, runs, ghost, extr>>

----------------------------------------------------------------------------
(* except and finally *)

\* the alerters AlertManager.__init__ built from config["alerting"]
NumAlerters == 2

\* an alerter call whose exception is not caught
DispatchUncaught(failed) ==
    [entry |-> IF failed THEN "alerter:failed" ELSE "alerter:sent", raised |-> failed]

\* try: alerter.send(message, subject=subject)
\* except Exception: logging.error(...)
Dispatch(failed) ==
    [entry |-> IF failed THEN "alerter:failed" ELSE "alerter:sent", raised |-> FALSE]

\* AlertManager.send: `for alerter in self.alerters` from the i-th alerter on;
\* fails are the alerters whose send raises
RECURSIVE AlertSend(_, _)
AlertSend(i, fails) ==
    IF i > NumAlerters THEN [log |-> <<>>, raised |-> FALSE]
    ELSE LET one == Dispatch(i \in fails)
         IN IF one.raised THEN [log |-> <<one.entry>>, raised |-> TRUE]
            ELSE LET rest == AlertSend(i + 1, fails)
                 IN [log |-> <<one.entry>> \o rest.log, raised |-> rest.raised]

\* Orchestrator.run: self._handle_error(...) sends the alert; both drivers:
\* if adapter: adapter.rollback(); the exception then leaves the run. An
\* exception that left _handle_error would take the place of the original
\* one before the rollback.
Except ==
    /\ pc = "except"
    /\ raised' = TRUE
    /\ \E fails \in (IF entry = "orchestrator" THEN SUBSET (1..NumAlerters) ELSE {{}}) :
         LET sent == IF entry = "orchestrator" THEN AlertSend(1, fails)
                     ELSE [log |-> <<>>, raised |-> FALSE]
         IN /\ IF adapter /\ conn /\ ~sent.raised
               THEN Apply(Rollback(backend, working, committed))
               ELSE UNCHANGED <<working, committed>>
            /\ calls' = calls \o (IF entry = "orchestrator" THEN <<"alert">> ELSE <<>>)
                              \o sent.log
                              \o (IF adapter /\ ~sent.raised THEN <<"rollback">> ELSE <<>>)
            /\ op' = IF adapter /\ ~sent.raised THEN "rollback" ELSE "none"
            /\ stage' = IF sent.raised THEN "alert" ELSE stage
    /\ pc' = "finally"
    /\ UNCHANGED <<config, upstream, adapter, conn, status, new_state,
                   last_state, tbl, runs, faults, ghost, extr>>

\* whether the finally block writes the run state: Orchestrator.run only
\* `if status == "SUCCESS"`, cli.run always
WritesStateAlways == TRUE
WritesState == entry = "cli" \/ status = "SUCCESS"

\* finally: adapter.update_state(dataset, state=new_state, status=status)
FinallyUpdate ==
    /\ pc = "finally"
    /\ adapter
    /\ WritesState
    /\ IF ~conn
       THEN /\ pc' = "idle" /\ raised' = TRUE
            /\ UNCHANGED <<working, committed, faults>>
       ELSE \E ok \in Outcomes :
              LET r == UpdateState(backend, working, committed, Dataset,
                                   new_state, status, Now, ok)
              IN /\ Fault(ok)
                 /\ Apply(r)
                 /\ IF r.exc THEN pc' = "idle" /\ raised' = TRUE
                             ELSE pc' = "fin_commit" /\ raised' = raised
    /\ Log(IF status = "SUCCESS" THEN "update_state:SUCCESS" ELSE "update_state:FAILED")
    /\ op' = "update_state"
    /\ UNCHANGED <<config, upstream, adapter, conn, status, new_state,
                   last_state, tbl, stage, runs, ghost, extr>>

\* finally of Orchestrator.run when status is not SUCCESS: nothing is written
FinallySkip ==
    /\ pc = "finally"
    /\ adapter
    /\ ~WritesState
    /\ pc' = "fin_disconnect"
    /\ op' = "none"
    /\ UNCHANGED <<config, upstream, committed, working, adapter, conn, status,
                   new_state, last_state, raised, tbl, stage, calls, runs,
                   faults, ghost, extr>>

\* finally: adapter.commit()
FinallyCommit ==
    /\ pc = "fin_commit"
    /\ Apply(Commit(backend, working, committed))
    /\ pc' = "fin_disconnect"
    /\ Log("commit")
    /\ op' = "commit"
    /\ UNCHANGED <<config, upstream, adapter, conn, status, new_state,
                   last_state, raised, tbl, stage, runs, faults, ghost, extr>>

\* finally: adapter.disconnect() (cli.run calls it close); what the closed
\* connection had not committed is gone
Disconnect ==
    /\ pc = "fin_disconnect"
    /\ conn' = FALSE
    /\ working' = committed
    /\ pc' = "idle"
    /\ Log("disconnect")
    /\ op' = "disconnect"
    /\ UNCHANGED <<config, upstream, committed, adapter, status, new_state,
                   last_state, raised, tbl, stage, runs, faults, ghost, extr>>

Next ==
    \/ Publish
    \/ StartRun
    \/ Connect
    \/ EnsureTargetSchema
    \/ GetState
    \/ Extract
    \/ DeltaCheck
    \/ ShortCircuitUpdate
    \/ ShortCircuitCommit
    \/ NoFiles
    \/ ParseTransform
    \/ Validate
    \/ CheckPrimaryKey
    \/ BulkLoadTarget
    \/ EnsureStaging
    \/ BulkLoadStaging
    \/ MergeStaging
    \/ DropStaging
    \/ Except
    \/ FinallyUpdate
    \/ FinallySkip
    \/ FinallyCommit
    \/ Disconnect

Spec == Init /\ [][Next]_vars

----------------------------------------------------------------------------
(* The adapters called directly through LoaderInterface *)

\* row sets in which no two rows share the key columns pks
UniqueKeys(R, pks) == \A r1, r2 \in R : Matches(r1, r2, pks) => r1 = r2
KeyedRowSets == {R \in SUBSET Rows : UniqueKeys(R, {"k"})}

V1 == [etag |-> 1, last_modified |-> 0, nested |-> FALSE]
ApiTarget == "t1"
ApiStaging == StagingOf[ApiTarget]

AdapterInit ==
    /\ backend \in Backends
    /\ entry = "orchestrator"
    /\ load_mode = "merge"
    /\ primary_key = {"k"}
    /\ multi_file = FALSE
    /\ hdrs = {"etag"}
    /\ empty_tables = {}
    /\ RunVarsInit
    /\ ExtrInit
    /\ pc = "api"
    /\ \E T \in KeyedRowSets, S \in KeyedRowSets, staged \in BOOLEAN,
          st \in {{}, {StateRow(Dataset, 1, 1, "SUCCESS", Dumps(V1))}} :
         /\ staged \/ S = {}
         /\ committed = [exists |-> {StateTable, ApiTarget} \cup (IF staged THEN {ApiStaging} ELSE {}),
                         rows |-> [t \in AllTables |->
                                     IF t = ApiTarget THEN T
                                     ELSE IF t = ApiStaging THEN S ELSE {}],
                         st |-> st]
         /\ working = committed

\* the clock of a direct call: later than the rows of the initial database
ApiNow == runs + 2

ApiCall(name, r, arg) ==
    /\ pc = "api"
    /\ Len(calls) < MaxOps
    /\ Apply(r)
    /\ Log(name)
    /\ op' = name
    /\ apiArg' = [arg EXCEPT !.exc = r.exc, !.pre = working,
                                !.preCommitted = committed]
    /\ runs' = runs + 1
    /\ UNCHANGED <<config, upstream, adapter, conn, pc, status, new_state,
                   last_state, raised, tbl, stage, hist, loadRuns, seenRuns,
                   startRows, extr>>

ApiEnsureSchema ==
    \E ok \in Outcomes, hasName \in BOOLEAN,
       ts \in {{ApiStaging}, {ApiTarget, ApiStaging}} :
      /\ Fault(ok)
      /\ ApiCall("ensure_schema",
                 EnsureSchema(backend, working, committed, ts, hasName, ok),
                 [NoArg EXCEPT !.t = ApiStaging, !.ts = ts])

ApiBulkLoad ==
    \E ok \in Outcomes, mode \in Modes, data \in {{}, Batch(1, ApiTarget)} :
      /\ Fault(ok)
      /\ ApiCall("bulk_load",
                 BulkLoad(backend, working, committed, data, ApiTarget, mode, ok),
                 [NoArg EXCEPT !.t = ApiTarget, !.mode = mode, !.data = data])

ApiExecuteMerge ==
    \E ok \in Outcomes, pks \in {{}, {"k"}, {"k", "v"}} :
      /\ Fault(ok)
      /\ ApiCall("execute_merge",
                 ExecuteMerge(backend, working, committed, ApiStaging, ApiTarget, pks, ok),
                 [NoArg EXCEPT !.t = ApiTarget, !.pks = pks])

ApiUpdateState ==
    \E ok \in Outcomes, st \in {"SUCCESS", "FAILED"}, state \in {EmptyState, V1} :
      /\ Fault(ok)
      /\ ApiCall("update_state",
                 UpdateState(backend, working, committed, Dataset, state, st,
                             ApiNow, ok),
                 [NoArg EXCEPT !.status = st])

ApiCommit ==
    /\ ApiCall("commit", Commit(backend, working, committed), NoArg)
    /\ UNCHANGED faults

ApiRollback ==
    /\ ApiCall("rollback", Rollback(backend, working, committed), NoArg)
    /\ UNCHANGED faults

ApiExecuteSql ==
    \E ok \in Outcomes :
      /\ Fault(ok)
      /\ ApiCall("execute_sql",
                 ExecuteSqlDrop(backend, working, committed, ApiStaging, ok),
                 [NoArg EXCEPT !.t = ApiStaging])

AdapterNext ==
    \/ ApiEnsureSchema
    \/ ApiBulkLoad
    \/ ApiExecuteMerge
    \/ ApiUpdateState
    \/ ApiCommit
    \/ ApiRollback
    \/ ApiExecuteSql

AdapterSpec == AdapterInit /\ [][AdapterNext]_vars

----------------------------------------------------------------------------
(* The run-state table through update_state / get_latest_state *)

StateDatasets == {"approvals", "jader"}
Statuses == {"SUCCESS", "FAILED"}

StateInit ==
    /\ backend \in Backends
    /\ entry = "orchestrator"
    /\ load_mode = "append"
    /\ primary_key = {"k"}
    /\ multi_file = FALSE
    /\ hdrs = {"etag"}
    /\ empty_tables = {}
    /\ RunVarsInit
    /\ ExtrInit
    /\ pc = "state"
    /\ \E st \in {{}, {StateRow(Dataset, 1, 1, "SUCCESS", Dumps(V1))}} :
         committed = [InitDb(EmptyDb) EXCEPT !.st = st]
    /\ working = committed

StateCall(name, r) ==
    /\ pc = "state"
    /\ Len(calls) < MaxStateOps
    /\ Apply(r)
    /\ Log(name)
    /\ op' = name
    /\ runs' = runs + 1
    /\ UNCHANGED <<config, upstream, adapter, conn, pc, status, raised, tbl,
                   hist, loadRuns, seenRuns, startRows, extr>>

\* adapter.update_state(d, state, st, schema)
StUpdateState ==
    \E d \in StateDatasets, st \in Statuses, state \in States, ok \in Outcomes :
      LET r == UpdateState(backend, working, committed, d, state, st, ApiNow, ok)
      IN /\ Fault(ok)
         /\ StateCall("update_state", r)
         /\ new_state' = state
         /\ apiArg' = [NoArg EXCEPT !.t = d, !.status = st, !.exc = r.exc,
                                    !.pre = working, !.preCommitted = committed]
         /\ UNCHANGED <<last_state, stage>>

\* last_state = adapter.get_latest_state(d, schema)
StGetLatestState ==
    \E d \in StateDatasets :
      /\ StateCall("get_latest_state", Result(working, committed, FALSE))
      /\ last_state' = GetLatestState(backend, working, d)
      /\ stage' = d
      /\ UNCHANGED <<new_state, apiArg, faults>>

StCommit ==
    /\ StateCall("commit", Commit(backend, working, committed))
    /\ UNCHANGED <<new_state, last_state, stage, apiArg, faults>>

StRollback ==
    /\ StateCall("rollback", Rollback(backend, working, committed))
    /\ UNCHANGED <<new_state, last_state, stage, apiArg, faults>>

StateNext ==
    \/ StUpdateState
    \/ StGetLatestState
    \/ StCommit
    \/ StRollback

StateSpec == StateInit /\ [][StateNext]_vars

----------------------------------------------------------------------------
(* BaseExtractor._send_request / _send_post_request *)

\* random.uniform(0, 1), in the unit of the backoff factor
Jitter == {0, 1}

\* a backoff that does not grow with the attempt
ConstantWait(backoff_factor, attempt, jitter) == backoff_factor + jitter

\* wait_time = self.backoff_factor * (2 ** attempt) + random.uniform(0, 1)
WaitTime(backoff_factor, attempt, jitter) == backoff_factor * (2 ^ attempt) + jitter

\* an attempt that sends its request at once
AttemptNoDelay(events) == Append(events, "request")

\* time.sleep(1); response = self.session.get(...) / self.session.post(...)
Attempt(events) == events \o <<"sleep", "request">>

\* what an attempt meets: a response of a status class, or no response
Responses == {"2xx", "304", "4xx", "5xx", "transport"}
\* session.get / session.post raises without a response;
\* response.raise_for_status() raises HTTPError, a RequestException, for
\* every 4xx and 5xx status
Raises(resp) == resp \in {"4xx", "5xx", "transport"}

FetchFrame == <<config, upstream, committed, working, adapter, conn, pc, status,
                new_state, last_state, raised, tbl, stage, calls, op, runs,
                faults, ghost, downloaded, cache, local_filepath, lastBody,
                session, validator, multirun>>

FetchInit ==
    /\ backend = "postgres"
    /\ entry = "orchestrator"
    /\ load_mode = "append"
    /\ primary_key = {"k"}
    /\ multi_file = FALSE
    /\ hdrs = {"etag"}
    /\ empty_tables = {}
    /\ RunVarsInit
    /\ committed = EmptyDb
    /\ working = EmptyDb
    /\ cache = NoCache
    /\ lastBody = [u \in Urls |-> NoBody]
    /\ session = NoSession
    /\ validator = NoValidator
    /\ multirun = NoMulti
    /\ pc = "fetch"
    /\ \E method \in {"GET", "POST"}, retries \in 0..MaxRetries,
          backoff_factor \in 1..MaxBackoff :
         fetch = [NoFetch EXCEPT !.method = method, !.retries = retries,
                                 !.backoff_factor = backoff_factor,
                                 !.result = "running"]

\* one iteration of `for attempt in range(self.retries)`: time.sleep(1), the
\* request, and on failure either the backoff sleep or the final raise; with
\* an empty range the raise after the loop
RetryLoop ==
    /\ pc = "fetch"
    /\ fetch.result = "running"
    /\ IF fetch.attempt < fetch.retries
       THEN \E resp \in Responses, jitter \in Jitter :
              fetch' =
                IF ~Raises(resp)
                THEN [fetch EXCEPT !.delays = @ + 1,
                                   !.events = Attempt(@),
                                   !.outcomes = Append(@, TRUE),
                                   !.responses = Append(@, resp),
                                   !.result = "returned"]
                ELSE IF fetch.attempt < fetch.retries - 1
                THEN [fetch EXCEPT !.delays = @ + 1,
                                   !.events = Append(Attempt(@), "backoff"),
                                   !.outcomes = Append(@, FALSE),
                                   !.responses = Append(@, resp),
                                   !.waits = Append(@, WaitTime(fetch.backoff_factor,
                                                                fetch.attempt, jitter)),
                                   !.attempt = @ + 1]
                ELSE [fetch EXCEPT !.delays = @ + 1,
                                   !.events = Attempt(@),
                                   !.outcomes = Append(@, FALSE),
                                   !.responses = Append(@, resp),
                                   !.result = "raised"]
       ELSE fetch' = [fetch EXCEPT !.result = "raised"]
    /\ UNCHANGED FetchFrame

\* self.session.get(url, stream=stream, timeout=30, headers=headers)
SendRequest ==
    /\ fetch.method = "GET"
    /\ RetryLoop

\* self.session.post(url, data=data, headers=headers, stream=stream, timeout=30)
SendPostRequest ==
    /\ fetch.method = "POST"
    /\ RetryLoop

FetchNext ==
    \/ SendRequest
    \/ SendPostRequest

FetchSpec == FetchInit /\ [][FetchNext]_vars

----------------------------------------------------------------------------
(* BaseExtractor._download_file *)

\* the cache after the download: a 304 leaves it alone, a 200 writes the body
\* to cache_dir / local_filename
DownloadCache(files, url, h, ver, last) ==
    IF NotModified(h, ver, last) THEN files
    ELSE [files EXCEPT ![LocalFilename(url)] = Body(url, ver)]

FlatStates == {st \in States : ~st.nested}

DownloadInit ==
    /\ backend = "postgres"
    /\ entry = "orchestrator"
    /\ load_mode = "append"
    /\ primary_key = {"k"}
    /\ multi_file = FALSE
    /\ hdrs \in SUBSET {"etag", "last_modified"}
    /\ empty_tables = {}
    /\ RunVarsInit
    /\ committed = EmptyDb
    /\ working = EmptyDb
    /\ fetch = NoFetch
    /\ cache \in [Filenames -> {NoBody, OldBody}]
    /\ lastBody = [u \in Urls |-> NoBody]
    /\ session = NoSession
    /\ validator = NoValidator
    /\ multirun = NoMulti
    /\ pc = "download"

DownloadFrame == <<config, committed, working, adapter, conn, pc, status,
                   raised, tbl, stage, runs, hist, loadRuns, seenRuns,
                   startRows, downloaded, fetch, session, validator, multirun>>

\* the server publishes a new version of its files
DownloadPublish ==
    /\ pc = "download"
    /\ upstream < MaxVersion
    /\ upstream' = upstream + 1
    /\ op' = "none"
    /\ UNCHANGED <<DownloadFrame, new_state, last_state, calls, faults, apiArg,
                   cache, local_filepath, lastBody>>

\* self._download_file(url, last_state=last): the request fails after its
\* retries, or is answered with 304 or 200
DownloadFileCall ==
    /\ pc = "download"
    /\ Len(calls) < MaxDownloads
    /\ \E url \in Urls, last \in FlatStates, ok \in Outcomes :
         /\ Fault(ok)
         /\ last_state' = last
         /\ apiArg' = [NoArg EXCEPT !.url = url, !.cache = cache, !.exc = ~ok]
         /\ IF ok
            THEN /\ new_state' = DownloadFile(hdrs, upstream, last)
                 /\ cache' = DownloadCache(cache, url, hdrs, upstream, last)
                 /\ local_filepath' = LocalFilename(url)
                 /\ op' = IF NotModified(hdrs, upstream, last)
                          THEN "download:304" ELSE "download:200"
                 /\ lastBody' = IF NotModified(hdrs, upstream, last) THEN lastBody
                                 ELSE [lastBody EXCEPT ![url] = Body(url, upstream)]
            ELSE /\ new_state' = EmptyState
                 /\ op' = "download:error"
                 /\ UNCHANGED <<cache, local_filepath, lastBody>>
    /\ Log("download")
    /\ UNCHANGED <<DownloadFrame, upstream>>

DownloadNext ==
    \/ DownloadPublish
    \/ DownloadFileCall

DownloadSpec == DownloadInit /\ [][DownloadNext]_vars

----------------------------------------------------------------------------
(* connect on one adapter instance, with statements in between *)

\* connection_details: whether "project" and "gcs_bucket" are given (read by
\* the BigQuery adapter only)
Details == [project : BOOLEAN, gcs_bucket : BOOLEAN]
FullDetails == [project |-> TRUE, gcs_bucket |-> TRUE]

\* what the driver's connect does
ConnOutcomes(b) ==
    IF faults >= MaxFaults THEN {"ok"}
    ELSE IF b = "bigquery" THEN {"ok", "client_fails", "gcs_fails"}
    ELSE {"ok", "client_fails"}

ConnectInit ==
    /\ backend \in Backends
    /\ entry = "orchestrator"
    /\ load_mode = "append"
    /\ primary_key = {"k"}
    /\ multi_file = FALSE
    /\ hdrs = {"etag"}
    /\ empty_tables = {}
    /\ RunVarsInit
    /\ ExtrInit
    /\ pc = "conn"
    /\ \E st \in {{}, {StateRow(Dataset, 1, 1, "SUCCESS", Dumps(V1))}} :
         committed = [InitDb(EmptyDb) EXCEPT !.st = st]
    /\ working = committed

ConnFrame == <<config, upstream, adapter, conn, pc, status, new_state,
               last_state, raised, tbl, stage, hist, loadRuns, seenRuns,
               startRows, downloaded, fetch, cache, local_filepath, lastBody,
               validator, multirun>>

\* adapter.connect(connection_details); a new connection starts from the
\* committed database
CnConnect ==
    /\ pc = "conn"
    /\ Len(calls) < MaxConnOps
    /\ \E details \in (IF backend = "bigquery" THEN Details ELSE {FullDetails}),
          out \in ConnOutcomes(backend) :
         LET r == ConnectAdapter(backend, session, details, out)
         IN /\ session' = r.s
            /\ faults' = faults + (IF out = "ok" THEN 0 ELSE 1)
            /\ working' = IF r.s.client # session.client THEN committed ELSE working
            /\ apiArg' = [NoArg EXCEPT !.session = session, !.pre = working,
                                       !.preCommitted = committed,
                                       !.exc = r.exc # "", !.error = r.exc]
    /\ Log("connect")
    /\ op' = "connect"
    /\ runs' = runs + 1
    /\ UNCHANGED <<ConnFrame, committed>>

\* adapter.update_state(...) on the connected adapter
CnUpdateState ==
    /\ pc = "conn"
    /\ Len(calls) < MaxConnOps
    /\ Connected(session)
    /\ \E st \in Statuses, ok \in Outcomes :
         LET r == UpdateState(backend, working, committed, Dataset, V1, st, ApiNow, ok)
         IN /\ Fault(ok)
            /\ Apply(r)
            /\ apiArg' = [NoArg EXCEPT !.session = session, !.pre = working,
                                       !.preCommitted = committed,
                                       !.status = st, !.exc = r.exc]
    /\ Log("update_state")
    /\ op' = "update_state"
    /\ runs' = runs + 1
    /\ UNCHANGED <<ConnFrame, session>>

ConnectNext ==
    \/ CnConnect
    \/ CnUpdateState

ConnectSpec == ConnectInit /\ [][ConnectNext]_vars

----------------------------------------------------------------------------
(* DataValidator.validate *)

\* the _check_<name> methods modelled, of the five DataValidator defines
KnownChecks == {"not_null", "is_unique"}
\* rule.get("column") of a rule without a column
NoColumn == ""
Rule == [check : KnownChecks \cup {"bogus"}, column : {"id", "name", "zip", NoColumn}]
\* a DataFrame: its columns, each MaxRows values long; NULL is a null value
Frames == UNION {[cs -> [1..MaxRows -> 0..2]] : cs \in {{"id"}, {"id", "name"}}}

\* a not_null check that reports that there are null values, not how many
CheckNotNullAny(df, column) ==
    IF \E i \in 1..MaxRows : df[column][i] = NULL
    THEN <<<<"null_values", column, 1>>>> ELSE <<>>

\* _check_not_null: if df[column].isnull().any(): append
\* "Column '<column>' has <null_count> null values."
CheckNotNull(df, column) ==
    LET null_count == Cardinality({i \in 1..MaxRows : df[column][i] = NULL})
    IN IF null_count > 0 THEN <<<<"null_values", column, null_count>>>> ELSE <<>>

\* _check_is_unique: if not df[column].is_unique: append "... Found
\* <duplicates> duplicate values", the distinct non-null values of the rows
\* that repeat an earlier row
CheckIsUnique(df, column) ==
    LET dup == {i \in 1..MaxRows : \E j \in 1..(i - 1) : df[column][j] = df[column][i]}
        duplicates == Cardinality({df[column][i] : i \in dup} \ {NULL})
    IN IF dup # {} THEN <<<<"not_unique", column, duplicates>>>> ELSE <<>>

\* a loop body that skips a rule with an unknown check without an error
RuleErrorsSilent(rule, df) ==
    IF rule.check \notin KnownChecks THEN <<>>
    ELSE IF rule.column # NoColumn /\ rule.column \notin DOMAIN df
    THEN <<<<"column_not_found", rule.column>>>>
    ELSE IF rule.column = NoColumn THEN <<<<"check_error", rule.check>>>>
    ELSE IF rule.check = "not_null" THEN CheckNotNull(df, rule.column)
    ELSE CheckIsUnique(df, rule.column)

\* the body of `for rule in self.rules`: the errors one rule appends. An
\* unknown check and a missing column append an error and `continue`; a
\* rule without column makes check_method(df, **rule) raise TypeError, which
\* `except Exception` turns into an error.
RuleErrors(rule, df) ==
    IF rule.check \notin KnownChecks THEN <<<<"unknown_check", rule.check>>>>
    ELSE IF rule.column # NoColumn /\ rule.column \notin DOMAIN df
    THEN <<<<"column_not_found", rule.column>>>>
    ELSE IF rule.column = NoColumn THEN <<<<"check_error", rule.check>>>>
    ELSE IF rule.check = "not_null" THEN CheckNotNull(df, rule.column)
    ELSE CheckIsUnique(df, rule.column)

\* validate from its loop on: self.errors after the rules were run
RECURSIVE RunRules(_, _, _)
RunRules(rules, df, errors) ==
    IF rules = <<>> THEN errors
    ELSE RunRules(Tail(rules), df, errors \o RuleErrors(Head(rules), df))

ValidateInit ==
    /\ backend = "postgres"
    /\ entry = "orchestrator"
    /\ load_mode = "append"
    /\ primary_key = {"k"}
    /\ multi_file = FALSE
    /\ hdrs = {"etag"}
    /\ empty_tables = {}
    /\ RunVarsInit
    /\ fetch = NoFetch
    /\ cache = NoCache
    /\ lastBody = [u \in Urls |-> NoBody]
    /\ session = NoSession
    /\ multirun = NoMulti
    /\ committed = EmptyDb
    /\ working = EmptyDb
    /\ pc = "validator"
    /\ \E none \in BOOLEAN, n \in 0..MaxRules, df \in Frames :
         \E rules \in [1..n -> Rule] :
            /\ none => n = 0
            /\ validator = [NoValidator EXCEPT !.none = none, !.rules = rules,
                                               !.df = df]

\* validator.validate(df): self.errors = []; `if self.rules is None: return
\* True`; the loop; return False if self.errors else True
VdValidate ==
    /\ pc = "validator"
    /\ validator.calls < MaxValidations
    /\ LET errors == IF validator.none THEN <<>>
                     ELSE RunRules(validator.rules, validator.df, <<>>)
       IN validator' = [validator EXCEPT !.errors = errors,
                                         !.result = (errors = <<>>),
                                         !.calls = @ + 1,
                                         !.prevErrors = validator.errors,
                                         !.prevResult = validator.result]
    /\ op' = "validate"
    /\ UNCHANGED <<config, upstream, committed, working, adapter, conn, pc,
                   status, new_state, last_state, raised, tbl, stage, calls,
                   runs, faults, ghost, downloaded, fetch, cache,
                   local_filepath, lastBody, session, multirun>>

ValidateNext == VdValidate

ValidateSpec == ValidateInit /\ [][ValidateNext]_vars

----------------------------------------------------------------------------
(* PackageInsertsExtractor / ReviewReportsExtractor and the loop over their *)
(* files in Orchestrator.run                                               *)

Names == {"drugA", "drugB"}
MultiUrls == {u \in Urls : u[1] # "archive"}
\* the download links the search results show for a name, in row order
Links == {<<>>} \cup {<<u>> : u \in MultiUrls} \cup {<<u, v>> : u, v \in MultiUrls}

\* all_new_states[url] = state
Put(dict, url, state) ==
    [keys |-> dict.keys \cup {url}, at |-> [dict.at EXCEPT ![url] = state]]
\* last_state.get(url, {})
Get(dict, url) == IF url \in dict.keys THEN dict.at[url] ELSE EmptyState

\* the downloads of one name. review_reports: `for url in found_links`, with
\* `if url in all_new_states: continue`; package_inserts: the one
\* download_url. _download_file answers from the cache on 304, writes the file
\* on 200; `if file_path and file_path.exists()` appends (file_path, url)
\* and sets all_new_states[url] = self.new_state.
RECURSIVE DownloadLinks(_, _, _, _, _, _)
DownloadLinks(kind, links, ver, h, last, acc) ==
    IF links = <<>> THEN acc
    ELSE LET url == Head(links)
             ls == Get(last, url)
             fresh == ~NotModified(h, ver[url], ls)
             files == acc.files \cup (IF fresh THEN {LocalFilename(url)} ELSE {})
         IN IF kind = "review_reports" /\ url \in acc.all_new_states.keys
            THEN DownloadLinks(kind, Tail(links), ver, h, last, acc)
            ELSE IF LocalFilename(url) \notin files
            THEN DownloadLinks(kind, Tail(links), ver, h, last, acc)
            ELSE DownloadLinks(kind, Tail(links), ver, h, last,
                     [downloaded_data |-> Append(acc.downloaded_data, url),
                      all_new_states |-> Put(acc.all_new_states, url,
                                             DownloadFile(h, ver[url], ls)),
                      fresh |-> acc.fresh \cup (IF fresh THEN {url} ELSE {}),
                      files |-> files])

\* `for name in drug_names` from the i-th name on; the requests of the names
\* in failed raise requests.RequestException, which is logged (`continue`).
\* package_inserts downloads the link of the first matching row,
\* review_reports every link found.
RECURSIVE ExtractNames(_, _, _, _, _, _, _, _)
ExtractNames(m, i, h, failed, files0, data0, states0, fresh0) ==
    LET acc == [downloaded_data |-> data0, all_new_states |-> states0,
                fresh |-> fresh0, files |-> files0]
    IN IF i > Len(m.drug_names) THEN acc
       ELSE LET found == m.site[m.drug_names[i]]
                links == IF m.kind = "package_inserts" /\ found # <<>>
                         THEN <<Head(found)>> ELSE found
                r == IF i \in failed THEN acc
                     ELSE DownloadLinks(m.kind, links, m.ver, h, m.last_state, acc)
            IN ExtractNames(m, i + 1, h, failed, r.files, r.downloaded_data,
                            r.all_new_states, r.fresh)

MultiInit ==
    /\ backend = "postgres"
    /\ entry = "orchestrator"
    /\ load_mode = "append"
    /\ primary_key = {"k"}
    /\ multi_file = TRUE
    /\ hdrs \in {{}, {"etag"}}
    /\ empty_tables = {}
    /\ RunVarsInit
    /\ fetch = NoFetch
    /\ cache = NoCache
    /\ lastBody = [u \in Urls |-> NoBody]
    /\ session = NoSession
    /\ validator = NoValidator
    /\ committed = EmptyDb
    /\ working = EmptyDb
    /\ pc = "mx_idle"
    /\ \E kind \in {"package_inserts", "review_reports"}, n \in 0..MaxNames,
          site \in [Names -> Links] :
         \E drug_names \in [1..n -> Names] :
            multirun = [NoMulti EXCEPT !.kind = kind, !.drug_names = drug_names,
                                       !.site = site]

MultiFrame == <<config, upstream, committed, working, adapter, conn, status,
                new_state, last_state, raised, tbl, stage, calls, ghost,
                downloaded, fetch, local_filepath, lastBody, session, validator>>

\* the portal publishes a new version of one file
MxPublish ==
    /\ pc = "mx_idle"
    /\ \E u \in MultiUrls :
         /\ multirun.ver[u] < MaxVersion
         /\ multirun' = [multirun EXCEPT !.ver[u] = @ + 1]
    /\ op' = "none"
    /\ UNCHANGED <<MultiFrame, pc, runs, faults, cache>>

\* last_state = get_latest_state(...); extracted_output =
\* extractor_instance.extract(drug_names=..., last_state=last_state)
MxExtract ==
    /\ pc = "mx_idle"
    /\ runs < MaxMultiRuns
    /\ \E failed \in SUBSET (1..Len(multirun.drug_names)) :
         /\ faults + Cardinality(failed) <= MaxFaults
         /\ faults' = faults + Cardinality(failed)
         /\ LET m == [multirun EXCEPT !.last_state = multirun.stored]
                r == ExtractNames(m, 1, hdrs, failed, m.files, <<>>, NoStates, {})
            IN multirun' = [m EXCEPT !.downloaded_data = r.downloaded_data,
                                     !.all_new_states = r.all_new_states,
                                     !.fresh = r.fresh, !.files = r.files,
                                     !.loaded = <<>>, !.i = 1]
    /\ runs' = runs + 1
    /\ pc' = "mx_delta"
    /\ op' = "extract"
    /\ UNCHANGED <<MultiFrame, cache>>

\* if new_state == last_state and last_state: update_state, commit, return
MxDeltaCheck ==
    /\ pc = "mx_delta"
    /\ IF multirun.all_new_states = multirun.last_state
          /\ multirun.last_state.keys # {}
       THEN /\ multirun' = [multirun EXCEPT !.stored = multirun.all_new_states]
            /\ pc' = "mx_idle"
       ELSE /\ multirun' = multirun
            /\ pc' = "mx_load"
    /\ op' = "none"
    /\ UNCHANGED <<MultiFrame, runs, faults, cache>>

\* for file_path, source_url in downloaded_data: parse, transform, _load_data
MxLoadFile ==
    /\ pc = "mx_load"
    /\ multirun.i <= Len(multirun.downloaded_data)
    /\ multirun' = [multirun EXCEPT
                       !.loaded = Append(@, multirun.downloaded_data[multirun.i]),
                       !.i = @ + 1]
    /\ op' = "bulk_load"
    /\ UNCHANGED <<MultiFrame, pc, runs, faults, cache>>

\* status = "SUCCESS"; finally: update_state(state=new_state), commit
MxFinish ==
    /\ pc = "mx_load"
    /\ multirun.i > Len(multirun.downloaded_data)
    /\ multirun' = [multirun EXCEPT !.stored = multirun.all_new_states]
    /\ pc' = "mx_idle"
    /\ op' = "update_state"
    /\ UNCHANGED <<MultiFrame, runs, faults, cache>>

MultiNext ==
    \/ MxPublish
    \/ MxExtract
    \/ MxDeltaCheck
    \/ MxLoadFile
    \/ MxFinish

MultiSpec == MultiInit /\ [][MultiNext]_vars

----------------------------------------------------------------------------
(* Properties *)

RunEnded == pc = "idle" /\ runs >= 1
ExtractDone == Called("extract") /\ stage # "extract"
CommittedState == StateRowsOf(committed, Dataset)
ApiDone(name) == pc = "api" /\ op = name /\ ~apiArg.exc

\* C1 as stated: once the extractor has returned and the delta check is
\* done, the run has skipped parse, transform, validate, bulk_load and
\* execute_merge and has status SUCCESS exactly when new_state equals
\* last_state and last_state is non-empty; otherwise it goes on to parse.
C1_ShortCircuitIff ==
    (ExtractDone /\ pc # "delta") =>
        IF new_state = last_state /\ last_state # EmptyState
        THEN /\ ~Called("parse") /\ ~Called("validate") /\ ~LoadCalled
             /\ status = "SUCCESS"
        ELSE pc = "parse" \/ Called("parse")

\* C1 (amended): once the extractor has returned and the delta check is done,
\* the run has skipped parse, transform, validate, bulk_load and
\* execute_merge and has status SUCCESS exactly when new_state equals
\* last_state and last_state is non-empty, or the extractor returned no
\* downloaded file; otherwise it goes on to parse; a short-circuited run that
\* ends without an exception has recorded status SUCCESS.
C1_DeltaShortCircuit ==
    (ExtractDone /\ pc # "delta") =>
        IF new_state = last_state /\ last_state # EmptyState
        THEN /\ ~Called("parse") /\ ~Called("validate") /\ ~LoadCalled
             /\ status = "SUCCESS"
             /\ (pc = "idle" /\ ~raised =>
                   /\ Called("update_state:SUCCESS")
                   /\ \A r \in CommittedState : r.status = "SUCCESS")
        ELSE IF downloaded = 0
        THEN /\ ~Called("parse") /\ ~Called("validate") /\ ~LoadCalled
             /\ (pc # "parse" => status = "SUCCESS")
        ELSE pc = "parse" \/ Called("parse")

C1_Witness ==
    /\ RunEnded /\ ~raised /\ ExtractDone
    /\ new_state = last_state /\ last_state # EmptyState
    /\ Called("update_state:SUCCESS") /\ ~Called("parse")

\* C2: when the previous run completed without an exception and the upstream
\* has not changed since, a run that completes obtains new_state equal to
\* last_state, makes no bulk_load and no execute_merge call, and leaves the
\* run-state row with last_run_ts of this run.
C2_Idempotent ==
    (RunEnded /\ runs >= 2 /\ hist.prevOk /\ hist.prevVer = hist.curVer /\ ~raised) =>
        /\ new_state = last_state
        /\ ~LoadCalled
        /\ \A r \in CommittedState : r.last_run = runs

\* the tables the dataset loads
DatasetTables == {Targets[i] : i \in 1..NumTables}

\* C3: in runs without failures of a dataset that is configured with its
\* primary key, for every upstream version that some run has extracted and
\* that has rows to load, exactly one run has made a bulk_load or
\* execute_merge call.
C3_OneLoadPerChange ==
    (pc = "idle" /\ faults = 0 /\ primary_key # {}) =>
        \A ver \in 1..MaxVersion :
            (seenRuns[ver] >= 1 /\ \E t \in DatasetTables : Batch(ver, t) # {})
                => loadRuns[ver] = 1

LoadStages == {"extract", "parse", "validate", "bulk_load", "ensure_staging",
               "execute_merge", "drop_staging"}

\* C4: after a run in which the backend was connected, a step from
\* extraction through load raised and the adapter was disconnected,
\* update_state was called with status FAILED before the disconnect and the
\* run-state row shows FAILED.
C4_FailureRecorded ==
    (RunEnded /\ stage \in LoadStages /\ Called("disconnect")) =>
        /\ Called("update_state:FAILED")
        /\ CommittedState # {}
        /\ \A r \in CommittedState : r.status = "FAILED"

\* C5: on every adapter, update_state on an existing run-state row sets the
\* status and advances last_run_ts_utc, and with status FAILED leaves
\* last_successful_run_ts_utc at its prior value.
C5_FailedKeepsLastSuccess ==
    (ApiDone("update_state") /\ StateRowsOf(apiArg.pre, Dataset) # {}) =>
        \A old \in StateRowsOf(apiArg.pre, Dataset), new \in StateRowsOf(working, Dataset) :
            /\ new.status = apiArg.status
            /\ new.last_run > old.last_run
            /\ (apiArg.status = "FAILED" => new.last_succ = old.last_succ)

\* the watermark of the current upstream version
UpstreamState ==
    IF multi_file THEN Wrap(Validators(hdrs, upstream)) ELSE Validators(hdrs, upstream)

\* C6: between runs, whenever the persisted watermark is non-empty and equals
\* the validators of the upstream's current version, the rows of that version
\* are committed in every target table of the dataset.
C6_NoStaleLoad ==
    pc = "idle" =>
        \A r \in CommittedState :
            (Loads(r.wm) # EmptyState /\ Loads(r.wm) = UpstreamState) =>
                \A t \in DatasetTables : Batch(upstream, t) \subseteq committed.rows[t]

\* C7: after a run that ended in failure every target table holds exactly
\* the committed rows it held when the run started.
C7_NoPartialLoad ==
    (RunEnded /\ raised) =>
        \A t \in TargetSet : committed.rows[t] = startRows[t]

\* C8: on every adapter only commit() changes the committed database;
\* ensure_schema, bulk_load, execute_merge and update_state do not.
C8_OnlyCommitCommits ==
    (pc = "api" /\ op \in {"ensure_schema", "bulk_load", "execute_merge", "update_state"})
        => committed = apiArg.preCommitted

\* the target after an upsert: the staging rows plus the prior target rows
\* whose key does not occur in staging
MergeExpected(T, S, pks) == S \cup {t \in T : \A s \in S : Key(t, pks) # Key(s, pks)}

MergeCase ==
    /\ ApiDone("execute_merge")
    /\ apiArg.pks # {}
    /\ UniqueKeys(apiArg.pre.rows[ApiTarget], apiArg.pks)
    /\ UniqueKeys(apiArg.pre.rows[ApiStaging], apiArg.pks)

\* C9 as stated: on every adapter, for target and staging rows with unique
\* primary keys, execute_merge leaves the target equal to the staging rows
\* plus the prior target rows whose key does not occur in staging.
C9_MergeAnyKeys ==
    MergeCase =>
        working.rows[ApiTarget] =
            MergeExpected(apiArg.pre.rows[ApiTarget], apiArg.pre.rows[ApiStaging], apiArg.pks)

\* C9 amended: the same for tables that have at least one column outside the
\* primary key.
C9_MergeUpsert ==
    (MergeCase /\ Cols \ apiArg.pks # {}) =>
        working.rows[ApiTarget] =
            MergeExpected(apiArg.pre.rows[ApiTarget], apiArg.pre.rows[ApiStaging], apiArg.pks)

C9_Witness ==
    /\ MergeCase
    /\ apiArg.pks = {"k"}
    /\ apiArg.pre.rows[ApiTarget] = {[k |-> 1, v |-> 1], [k |-> 2, v |-> 2]}
    /\ apiArg.pre.rows[ApiStaging] = {[k |-> 2, v |-> 1], [k |-> 3, v |-> 2]}
    /\ working.rows[ApiTarget] = {[k |-> 1, v |-> 1], [k |-> 2, v |-> 1], [k |-> 3, v |-> 2]}

\* C10: after a merge-mode run in which ensure_schema(staging),
\* bulk_load(staging) or execute_merge raised, no staging table exists.
C10_StagingDropped ==
    (RunEnded /\ load_mode = "merge"
       /\ stage \in {"ensure_staging", "bulk_load", "execute_merge"}) =>
        \A t \in TargetSet : StagingOf[t] \notin committed.exists

----------------------------------------------------------------------------
(* Validation, configuration errors and the end of the run *)

IsLoad(c) == c \in {"bulk_load", "execute_merge"}
IsUpdate(c) == c \in {"update_state:SUCCESS", "update_state:FAILED"}
Count(P(_)) == Cardinality({i \in 1..Len(calls) : P(calls[i])})

\* C11: in a run of the orchestrator every validation precedes every
\* bulk_load and execute_merge call of the run, and a run aborted by a failed
\* validation has made no load call.
C11_ValidateBeforeLoad ==
    entry = "orchestrator" =>
        /\ \A i, j \in 1..Len(calls) :
              (calls[i] = "validate" /\ IsLoad(calls[j])) => i < j
        /\ stage = "validate" => ~LoadCalled

\* C12: a run in merge mode without a configured primary key that fails with
\* the configuration error has made no extraction and no database call.
C12_MergeNeedsKey ==
    (load_mode = "merge" /\ primary_key = {} /\ stage = "primary_key") =>
        /\ ~Called("extract")
        /\ ~Called("connect") /\ ~Called("ensure_schema")
        /\ ~Called("get_latest_state") /\ ~LoadCalled

\* C13: a run that has ended after a successful connect (load, short circuit
\* or failure) has called update_state exactly once.
C13_UpdateStateOnce ==
    (RunEnded /\ Called("connect") /\ stage # "connect") => Count(IsUpdate) = 1

IsAlert(c) == c = "alert"
IsRollback(c) == c = "rollback"

\* C14: a run of the orchestrator that created its adapter and ended with an
\* exception has performed exactly one rollback and sent exactly one alert;
\* a run that ended without an exception has done neither.
C14_RollbackAlertOnce ==
    (entry = "orchestrator" /\ RunEnded /\ adapter) =>
        IF raised THEN Count(IsAlert) = 1 /\ Count(IsRollback) = 1
                  ELSE Count(IsAlert) = 0 /\ Count(IsRollback) = 0

\* the last n calls of the run
LastCalls(n) == IF Len(calls) >= n THEN SubSeq(calls, Len(calls) - n + 1, Len(calls))
                ELSE <<>>
IsDisconnect(c) == c = "disconnect"

\* C15: a run that created and connected its adapter ends with update_state,
\* commit and disconnect in this order, with exactly one disconnect.
C15_FinalOrder ==
    (RunEnded /\ adapter /\ stage # "connect") =>
        /\ Len(calls) >= 3
        /\ IsUpdate(LastCalls(3)[1])
        /\ LastCalls(3)[2] = "commit"
        /\ LastCalls(3)[3] = "disconnect"
        /\ Count(IsDisconnect) = 1

----------------------------------------------------------------------------
(* The run-state table *)

\* C16: after any sequence of update_state calls on any adapter the run-state
\* table holds at most one row per dataset_id.
C16_OneRowPerDataset ==
    pc = "state" =>
        \A d \in StateDatasets :
            /\ Cardinality(StateRowsOf(working, d)) <= 1
            /\ Cardinality(StateRowsOf(committed, d)) <= 1

\* a second successful update_state of a dataset whose row was written by an
\* earlier update_state
C16_Witness ==
    /\ pc = "state" /\ op = "update_state" /\ ~apiArg.exc
    /\ StateRowsOf(apiArg.pre, apiArg.t) # {}
    /\ Cardinality(StateRowsOf(working, apiArg.t)) = 1
    /\ Cardinality(working.st) = 2

\* C17: on every adapter get_latest_state(d) right after a successful
\* update_state(d, w, status) returns a value equal to w.
C17_WatermarkRoundTrip ==
    (/\ pc = "state" /\ op = "get_latest_state" /\ Len(calls) >= 2
     /\ calls[Len(calls) - 1] = "update_state" /\ ~apiArg.exc
     /\ stage = apiArg.t) => last_state = new_state

----------------------------------------------------------------------------
(* The extractor *)

\* C19: in a run in which a request of the extraction exhausted its retries
\* the status never becomes SUCCESS and the run ends with the exception
\* propagated.
C19_FetchErrorFailsRun ==
    Called("RequestException") =>
        /\ status = "FAILED"
        /\ RunEnded => raised

\* C18: one fetch makes at most `retries` requests, makes no request after a
\* successful one (k failures followed by a success are exactly k+1
\* requests), and the i-th failure (from 0) that is followed by another
\* attempt is followed by a backoff sleep of at least backoff_factor * 2^i.
C18_RetryBackoff ==
    pc = "fetch" =>
        /\ Len(fetch.outcomes) <= fetch.retries
        /\ \A i \in 1..(Len(fetch.outcomes) - 1) :
              /\ ~fetch.outcomes[i]
              /\ Len(fetch.waits) >= i
              /\ fetch.waits[i] >= fetch.backoff_factor * (2 ^ (i - 1))
        /\ fetch.result = "returned" =>
              /\ fetch.outcomes[Len(fetch.outcomes)]
              /\ Len(fetch.waits) = Len(fetch.outcomes) - 1

\* retries = 3, two failures, then a success
C18_Witness ==
    /\ pc = "fetch" /\ fetch.retries = 3 /\ fetch.result = "returned"
    /\ fetch.outcomes = <<FALSE, FALSE, TRUE>>

\* C20: a conditional download answered with 304 leaves the files of the
\* cache as they were, returns the cache location of the URL and sets the new
\* state to the last state that was passed in.
C20_NotModifiedKeepsCache ==
    (pc = "download" /\ op = "download:304") =>
        /\ cache = apiArg.cache
        /\ local_filepath = LocalFilename(apiArg.url)
        /\ new_state = last_state

\* a 304 for a file that is in the cache, with both validators sent
C20_Witness ==
    /\ pc = "download" /\ op = "download:304"
    /\ cache[LocalFilename(apiArg.url)] # NoBody
    /\ last_state.etag # 0 /\ last_state.last_modified # 0

\* C21: a download answered with 200 leaves the body of the response in the
\* cache file of the URL, and the new state holds etag exactly when the
\* response carries ETag and last_modified exactly when it carries
\* Last-Modified, each with the value of the response, whatever the last
\* state held.
C21_FreshValidators ==
    (pc = "download" /\ op = "download:200") =>
        /\ cache[LocalFilename(apiArg.url)] = Body(apiArg.url, upstream)
        /\ new_state.etag # 0 <=> "etag" \in hdrs
        /\ new_state.last_modified # 0 <=> "last_modified" \in hdrs
        /\ "etag" \in hdrs => new_state.etag = upstream
        /\ "last_modified" \in hdrs => new_state.last_modified = upstream

\* a 200 without ETag for a request that carried both validators of the
\* earlier version, over a file that was in the cache
C21_Witness ==
    /\ pc = "download" /\ op = "download:200"
    /\ upstream = 2 /\ hdrs = {"last_modified"}
    /\ last_state.etag = 1 /\ last_state.last_modified = 1
    /\ apiArg.cache[LocalFilename(apiArg.url)] # NoBody
    /\ new_state.etag = 0 /\ new_state.last_modified = 2

\* C22: after any sequence of downloads the cache location of every URL that
\* was downloaded holds the body last downloaded from that URL.
C22_CacheKeyedByUrl ==
    pc = "download" =>
        \A u \in Urls : lastBody[u] # NoBody => cache[LocalFilename(u)] = lastBody[u]

\* C23: in one fetch (GET or POST) every request, first attempt or retry, is
\* immediately preceded by the inter-request sleep.
C23_DelayBeforeRequest ==
    pc = "fetch" =>
        \A i \in 1..Len(fetch.events) :
            fetch.events[i] = "request" => (i > 1 /\ fetch.events[i - 1] = "sleep")

\* a POST that fails once and then succeeds
C23_Witness ==
    /\ pc = "fetch" /\ fetch.method = "POST" /\ fetch.result = "returned"
    /\ fetch.events = <<"sleep", "request", "backoff", "sleep", "request">>

----------------------------------------------------------------------------
(* The adapters *)

\* C24: on every adapter, connect on a connected instance creates no
\* connection object, raises nothing and leaves the connection and what its
\* transaction sees as they were; a connect whose connection attempt fails on
\* an unconnected instance raises ConnectionError and leaves the instance
\* unconnected.
C24_ConnectIdempotent ==
    (pc = "conn" /\ op = "connect") =>
        /\ Connected(apiArg.session) =>
              /\ session.client = apiArg.session.client
              /\ session.gcs = apiArg.session.gcs
              /\ session.opened = apiArg.session.opened
              /\ working = apiArg.pre
              /\ ~apiArg.exc
        /\ (~Connected(apiArg.session) /\ apiArg.exc /\ apiArg.error # "ValueError") =>
              /\ apiArg.error = "ConnectionError"
              /\ ~Connected(session)

----------------------------------------------------------------------------
(* Empty batches *)

\* the run is inside _load_table for the current table
InLoadTable ==
    pc \in {"validate", "pk_check", "bulk", "stg_ensure", "stg_load", "merge", "drop"}
IsValidate(c) == c = "validate"
AfterTry == pc \in {"finally", "fin_commit", "fin_disconnect", "idle"}

\* C28: Orchestrator.run never enters _load_table (validation,
\* ensure_schema of the staging table, bulk_load, execute_merge) for a table
\* whose transformed batch has no rows; when its try block has completed
\* without an exception after parsing, every table with rows has been
\* handled and the status is SUCCESS.
C28_EmptyBatchSkipped ==
    entry = "orchestrator" =>
        /\ InLoadTable => Batch(hist.curVer, CurTable) # {}
        /\ (Called("parse") /\ stage = "" /\ AfterTry) =>
              /\ status = "SUCCESS"
              /\ Count(IsValidate) =
                    Cardinality({t \in DatasetTables : Batch(hist.curVer, t) # {}})

\* a run that skipped the empty first table, loaded the second and ended
\* with SUCCESS
C28_Witness ==
    /\ entry = "orchestrator" /\ ~multi_file /\ empty_tables = {"t1"}
    /\ RunEnded /\ ~raised /\ status = "SUCCESS"
    /\ calls = <<"connect", "ensure_schema", "get_latest_state", "extract", "parse",
                 "validate", "bulk_load", "update_state:SUCCESS", "commit",
                 "disconnect">>
    /\ committed.rows["t1"] = {}
    /\ Batch(hist.curVer, "t2") \subseteq committed.rows["t2"]

----------------------------------------------------------------------------
(* ensure_schema, bulk_load and execute_merge called directly *)

C26_BulkLoadModes ==
    (pc = "api" /\ op = "bulk_load" /\ apiArg.data # {}) =>
        /\ (apiArg.mode = "overwrite" /\ ~apiArg.exc) =>
              working.rows[apiArg.t] = apiArg.data
        /\ (apiArg.mode = "append" /\ ~apiArg.exc) =>
              working.rows[apiArg.t] = apiArg.pre.rows[apiArg.t] \cup apiArg.data
        /\ apiArg.mode \notin {"append", "overwrite"} =>
              /\ apiArg.exc
              /\ working.rows[apiArg.t] = apiArg.pre.rows[apiArg.t]
              /\ committed.rows[apiArg.t] = apiArg.preCommitted.rows[apiArg.t]

\* C27: on every adapter bulk_load of an empty dataset in append or
\* overwrite mode returns without raising, whatever the backend would answer
\* to a statement, and leaves the database as it was.
C27_EmptyLoadNoOp ==
    (pc = "api" /\ op = "bulk_load" /\ apiArg.data = {}
       /\ apiArg.mode \in {"append", "overwrite"}) =>
        /\ ~apiArg.exc
        /\ working = apiArg.pre
        /\ committed = apiArg.preCommitted

\* C29: on every adapter execute_merge with no primary key raises and leaves
\* the database as it was; with primary keys and a staging table that has no
\* columns, or no column outside the primary keys, it returns without
\* raising, whatever the backend would answer to the merge statement, and
\* leaves the database as it was.
C29_MergeDegenerate ==
    (pc = "api" /\ op = "execute_merge") =>
        /\ apiArg.pks = {} =>
              /\ apiArg.exc
              /\ working = apiArg.pre /\ committed = apiArg.preCommitted
        /\ (apiArg.pks # {} /\ TableCols(apiArg.pre, ApiStaging) \ apiArg.pks = {}) =>
              /\ ~apiArg.exc
              /\ working = apiArg.pre /\ committed = apiArg.preCommitted

----------------------------------------------------------------------------
(* Alerting *)

IsAlerter(c) == c \in {"alerter:sent", "alerter:failed"}

\* C30: once Orchestrator.run has handled an exception, every configured
\* alerter has been invoked, whichever of them failed, the rollback of the
\* created adapter has been made after the alert, and the exception that
\* leaves the run is the original one.
C30_AlertFailureContained ==
    (entry = "orchestrator" /\ Called("alert")) =>
        /\ Count(IsAlerter) = NumAlerters
        /\ raised
        /\ stage # "alert"
        /\ adapter =>
              \E i, j \in 1..Len(calls) :
                  i < j /\ calls[i] = "alert" /\ calls[j] = "rollback"

\* a run whose bulk_load failed, whose first alerter failed and whose second
\* alerter was still invoked before the rollback
C30_Witness ==
    /\ entry = "orchestrator" /\ RunEnded /\ raised /\ stage = "bulk_load"
    /\ Len(calls) >= 5
    /\ LastCalls(5) = <<"alert", "alerter:failed", "alerter:sent", "rollback",
                        "disconnect">>

----------------------------------------------------------------------------
(* The run-state schema *)

\* C31: whenever a run has read the prior state with get_latest_state, the
\* ingestion_state table exists in the database the connection sees (it was
\* ensured after connecting), and the read did not fail.
C31_StateSchemaEnsured ==
    Called("get_latest_state") =>
        /\ pc \in {"except", "extract"} => StateTable \in working.exists
        /\ stage # "get_state"

----------------------------------------------------------------------------
(* Validation rules *)

Validated == pc = "validator" /\ validator.calls >= 1
HasError(e) == \E i \in 1..Len(validator.errors) : validator.errors[i] = e

\* C32: after validate, the result is true exactly when the error list is
\* empty; without rules the result is true; every rule that names an unknown
\* check and every rule of a known check on a column the DataFrame does not
\* have left an error, and every not_null rule on a column with null values
\* left its error wherever it stands in the rule list.
C32_ValidateIffNoError ==
    Validated =>
        /\ validator.result <=> validator.errors = <<>>
        /\ validator.rules = <<>> => validator.result
        /\ \A i \in 1..Len(validator.rules) :
              LET rule == validator.rules[i]
              IN /\ rule.check = "bogus" => HasError(<<"unknown_check", "bogus">>)
                 /\ (rule.check # "bogus" /\ rule.column = "zip") =>
                       HasError(<<"column_not_found", "zip">>)
                 /\ (rule.check = "not_null" /\ rule.column \in DOMAIN validator.df
                        /\ \E r \in 1..MaxRows : validator.df[rule.column][r] = NULL) =>
                       \E k \in 1..MaxRows : HasError(<<"null_values", rule.column, k>>)
        /\ Len(validator.errors) <= Len(validator.rules)

\* a rule with an unknown check followed by a not_null rule on a column with a
\* null value: both errors are there
C32_Witness ==
    /\ Validated
    /\ Len(validator.rules) = 2
    /\ validator.rules[1].check = "bogus"
    /\ validator.rules[2] = [check |-> "not_null", column |-> "id"]
    /\ validator.errors = <<<<"unknown_check", "bogus">>, <<"null_values", "id", 1>>>>
    /\ ~validator.result

\* C33: a second validate on the same validator and DataFrame gives the same
\* result and the same errors as the first; with the single rule not_null on
\* a column, the result is false with the one error "k null values" when the
\* column has k > 0 null values, and true when it has none.
C33_ValidateDeterministic ==
    Validated =>
        /\ validator.calls >= 2 =>
              /\ validator.errors = validator.prevErrors
              /\ validator.result = validator.prevResult
        /\ (~validator.none /\ Len(validator.rules) = 1
              /\ validator.rules[1].check = "not_null"
              /\ validator.rules[1].column \in DOMAIN validator.df) =>
              LET column == validator.rules[1].column
                  k == Cardinality({r \in 1..MaxRows : validator.df[column][r] = NULL})
              IN IF k > 0
                 THEN ~validator.result
                      /\ validator.errors = <<<<"null_values", column, k>>>>
                 ELSE validator.result /\ validator.errors = <<>>

\* the second validate of a not_null rule on a column whose values are all null
C33_Witness ==
    /\ Validated
    /\ validator.calls = 2
    /\ validator.rules = <<[check |-> "not_null", column |-> "id"]>>
    /\ validator.errors = <<<<"null_values", "id", MaxRows>>>>
    /\ validator.prevErrors = validator.errors

----------------------------------------------------------------------------
(* The merge sequence *)

IsMergeStep(c) == c \in {"ensure_schema", "bulk_load", "execute_merge", "drop_staging"}
\* the adapter calls of _load_table in this run: those after the
\* ensure_schema of the target schema
MergeSteps == Tail(SelectSeq(calls, IsMergeStep))

\* C34: in a merge run of the orchestrator the target is never bulk-loaded:
\* the step that bulk-loads the target is never taken and the rows of the
\* targets are those of the start of the run until execute_merge is called;
\* execute_merge follows ensure_schema and bulk_load of the staging table,
\* which then holds exactly the batch (mode overwrite) and is merged with the
\* configured primary keys; a drop follows every ensure_schema of a staging
\* table once the table is done; a run that ends without an exception has made
\* the four calls in this order for every non-empty table and leaves no
\* staging table.
C34_MergeSequence ==
    (entry = "orchestrator" /\ load_mode = "merge" /\ Called("ensure_schema")) =>
        LET L == MergeSteps
        IN /\ pc # "bulk"
           /\ ~Called("execute_merge") =>
                 \A t \in TargetSet : working.rows[t] = startRows[t]
           /\ pc = "merge" =>
                 /\ StagingOf[CurTable] \in working.exists
                 /\ working.rows[StagingOf[CurTable]] = CurBatch
                 /\ PrimaryKeys = primary_key /\ primary_key # {}
           /\ \A i \in 1..Len(L) :
                 /\ L[i] = "bulk_load" => i >= 2 /\ L[i - 1] = "ensure_schema"
                 /\ L[i] = "execute_merge" => i >= 2 /\ L[i - 1] = "bulk_load"
                 /\ L[i] = "drop_staging" =>
                       i >= 2 /\ L[i - 1] \in {"ensure_schema", "bulk_load", "execute_merge"}
                 /\ (L[i] = "ensure_schema" /\ i > 1) => L[i - 1] = "drop_staging"
           /\ (Len(L) > 0 /\ pc \in {"validate", "except", "finally", "fin_commit",
                                      "fin_disconnect", "idle"}) =>
                 L[Len(L)] = "drop_staging"
           /\ (RunEnded /\ ~raised /\ Called("parse")) =>
                 /\ Len(L) = 4 * Cardinality({t \in DatasetTables :
                                                 Batch(hist.curVer, t) # {}})
                 /\ \A i \in 1..Len(L) :
                       L[i] = <<"ensure_schema", "bulk_load", "execute_merge",
                                "drop_staging">>[((i - 1) % 4) + 1]
                 /\ \A t \in TargetSet : StagingOf[t] \notin committed.exists

\* a merge run over two non-empty tables that ended without an exception
C34_Witness ==
    /\ entry = "orchestrator" /\ load_mode = "merge"
    /\ RunEnded /\ ~raised
    /\ Len(MergeSteps) = 8
    /\ committed.rows["t2"] # {}

----------------------------------------------------------------------------
(* Durability of load and watermark *)

\* the upstream version a stored watermark stands for (0 for an empty one)
WatermarkVersion(wm) ==
    LET s == IF Loads(wm).nested THEN Inner(Loads(wm)) ELSE Loads(wm)
    IN IF s.etag >= s.last_modified THEN s.etag ELSE s.last_modified

\* C35: for an upstream that sends validators, whenever a target table holds
\* committed rows that were not there when the run started, the committed
\* run-state row holds the watermark of the version of these rows (or of a
\* later one).
C35_LoadAndWatermarkTogether ==
    hdrs # {} =>
        \A t \in TargetSet : \A row \in committed.rows[t] \ startRows[t] :
            \E r \in CommittedState : WatermarkVersion(r.wm) >= row.v

----------------------------------------------------------------------------
(* Multi-file datasets *)

DataUrls == {multirun.downloaded_data[i] : i \in 1..Len(multirun.downloaded_data)}

\* C36: in a run of a multi-file dataset that did not short-circuit, every
\* file that was parsed, transformed and loaded is one whose download was
\* answered with new content (200), not with 304.
C36_OnlyChangedArtifactsLoaded ==
    pc \in {"mx_load", "mx_idle"} =>
        \A i \in 1..Len(multirun.loaded) : multirun.loaded[i] \in multirun.fresh

\* C39: after extract() of a multi-file extractor returned, the keys of the
\* new state are the source URLs of the artifact list, no URL occurs twice in
\* the list, and the entry of a URL is the watermark its own download
\* produced.
C39_StateKeysMatchArtifacts ==
    pc = "mx_delta" =>
        /\ multirun.all_new_states.keys = DataUrls
        /\ \A i, j \in 1..Len(multirun.downloaded_data) :
              multirun.downloaded_data[i] = multirun.downloaded_data[j] => i = j
        /\ \A u \in multirun.all_new_states.keys :
              multirun.all_new_states.at[u] =
                  DownloadFile(hdrs, multirun.ver[u], Get(multirun.last_state, u))

----------------------------------------------------------------------------
(* Which responses are retried *)

\* C37: every attempt of a fetch that was followed by a further request met a
\* transport failure or a 5xx response.
C37_RetryOnlyTransportOr5xx ==
    pc = "fetch" =>
        \A i \in 1..(Len(fetch.responses) - 1) :
            fetch.responses[i] \in {"5xx", "transport"}

----------------------------------------------------------------------------
(* The finally block after the except branch *)

\* C38: in a run of Orchestrator.run, once the except branch has executed
\* (the alert is in the call log), no update_state with status SUCCESS and no
\* commit follows.
C38_NoSuccessAfterExcept ==
    entry = "orchestrator" =>
        \A i \in 1..Len(calls) : \A j \in (i + 1)..Len(calls) :
            calls[i] = "alert" =>
                calls[j] \notin {"update_state:SUCCESS", "commit"}

====
